---- MODULE Spec2Model ----
(***************************************************************************)
(* A model of pydmp's outbound path: the panel's active-connection guard   *)
(* (panel.py), the session's send/receive (connection.py) and the command  *)
(* queue (queue.py).  Every asyncio task is a process; a step of a process *)
(* runs from one suspension point (await) to the next.                     *)
(***************************************************************************)
EXTENDS Integers, Sequences, FiniteSets, TLC

\* ------------------------------------------------------------------ bounds
\* DEFAULT_PORT, the port of a DMPPanel() built without arguments
DEFAULT_PORT == 2011

Panels   == {"p1", "p2"}
Hosts    == {"h1"}
Accounts == {"00001", "00002"}

NoKey == <<>>

VARIABLES
    \* ---- panel.py: the registry and the DMPPanel objects
    ACTIVE_CONNECTIONS, \* _ACTIVE_CONNECTIONS: set of (host, port, account)
    hasConn,            \* hasConn[p]: panel._connection is not None
    connKey,            \* (host, port, account) of panel._connection
    connected,          \* panel._connection._connected
    writer,             \* panel._connection._writer: "none", "open", "closing"
    ppc,                \* where the task using panel p is suspended
    afterDisc,          \* what follows the disconnect() in progress: "return"/"raise"
    presult,            \* outcome of the last call on panel p
    session,            \* identity of p's last successful connect(), NoKey if none
    pcause,             \* __cause__ of the error p's last failed open raised
    \* ---- connection.py: one DMPConnection and the tasks sending on it
    sconnected,         \* _connected
    swriter,            \* _writer: "none", "open" or "closing" (its transport)
    spc,                \* where each sending task is suspended
    scmd,               \* the command (its number) a task is sending, 0 if none
    nextCmd,            \* number of the next command handed to send_command
    wire,               \* the commands written to the socket, in order
    answered,           \* how many of them the panel has answered
    rbuf,               \* answers received and not yet read (StreamReader buffer)
    data,               \* what each task's _receive has read so far
    sresult,            \* each task's last send_command: "none", "response"
                        \* (it returned what data holds) or the exception raised
    sdisc,              \* disconnect() of the session was called and has returned
    keepalive_interval, \* panel._keepalive_interval, in seconds
    \* ---- queue.py: one CommandQueue, its worker tasks and the calling tasks
    running,            \* _running
    worker_task,        \* _worker_task: a worker, or 0 for None
    queue,              \* _queue: the QueuedCommands waiting, oldest first
    unfinished,         \* _queue._unfinished_tasks (put minus task_done)
    last_set,           \* _last_command_time != 0.0
    wpc,                \* where each worker task is: "none" (not created),
                        \* "new", "get", "rate", "send", "done"
    wcur,               \* the command a worker holds (cmd), 0 if none
    wcancel,            \* a cancel() of the worker task is pending
    tpc,                \* where each calling task is suspended
    twait,              \* the worker task a stop() awaits, 0 if none
    call,               \* what the c-th enqueue() call did: "none" (not called
                        \* yet), "accepted" (item put), "RuntimeError"
    fut,                \* QueuedCommand.result of each command: "none" (not
                        \* created), "pending", "result", or the exception set
    outcome,            \* what send_command did for each command
    sent,               \* the commands passed to send_command, in order
    nextQ,              \* number of the next command enqueued
    \* ---- pacing: the clock, the two timestamps and the workers' sleeps
    now,                \* loop.time(), in ticks of half a minimum interval
    c_last,             \* DMPConnection._last_command_time
    q_last,             \* CommandQueue._last_command_time (0 = 0.0, unset)
    tp,                 \* where each sending task is: "none", "get" (worker),
                        \* "idle" (direct caller), "qwait", "cwait", "settle",
                        \* "read"
    twake,              \* when the sleep a worker is in ends
    qw,                 \* how long _rate_limit_wait held the worker's command
    cw,                 \* how long _rate_limit held the worker's command
    paced,              \* commands taken from the queue so far
    \* ---- protocol.py: one answer of the panel and its decoding
    buffer,             \* the bytes read so far for one answer
    received,           \* the frames the panel sent into the buffer, in order
    result,             \* what decode_response returned for the buffer
    cpc,                \* "recv" while the answer is being read, then "done"
    \* ---- protocol.py: the protocol object and what it encoded last
    protocol,           \* "none", "built", or "ValueError" (construction raised)
    account_arg,        \* the account the last DMPProtocol(...) was given
    account_number,     \* protocol.account_number of the object built last
    ecall,              \* the last call of encode_command
    eaccount,           \* the account given to the object that call was made on
    encoded,            \* what that call returned or raised
    ewire,              \* the bytes the last send_command wrote to the socket
    esend,              \* the last send_command: who called, with what, how it ended
    \* ---- panel.py, area.py: the caches and the control wrappers
    online,             \* panel.is_connected
    areas,              \* panel._areas: number -> state and name of the Area
    zones,              \* panel._zones: number -> state and name of the Zone
    said_areas,         \* what the latest response that named an area said
    said_zones,         \* what the latest response that named a zone said
    wcall,              \* the last call of a wrapper and the panel's answer
    wresult,            \* how that call ended: "returned" or the exception
    wcalls,             \* calls of the control wrappers so far
    \* ---- status_parser.py: the event classifier
    kmsg,               \* the push message given to parse_scsvr_message
    kevent,             \* the ParsedEvent it returned
    \* ---- status_server.py: the event listener
    callbacks,          \* the registered callbacks, in registration order
    arrived,            \* connection -> lines that have arrived on it
    lcur,               \* connection -> the line its task is handing out (0: none)
    lidx,               \* connection -> position in callbacks of the next to call
    lrun,               \* connection -> a callback is running for it
    ldone,              \* connection -> lines every callback has had
    handed,             \* connection -> the (line, callback) calls made, in order
    \* ---- panel.py: the keep-alive loop task of one panel
    keepalive_task,     \* panel._keepalive_task: a loop task, 0 for None
    loop_pc,            \* loop task -> "none", "new", "send", "sleep", "done"
    loop_cancel,        \* loop task -> cancel() was called on it
    hconn,              \* panel.is_connected and panel._connection
    hpc,                \* caller -> where its call is suspended, or "idle"
    hwait,              \* caller -> the loop task it awaits, 0 for none
    hret,               \* what the last step returned or raised, "none" for no return
    hinterval           \* panel._keepalive_interval

pvars == <<ACTIVE_CONNECTIONS, hasConn, connKey, connected, writer, ppc,
           afterDisc, presult, session, pcause>>

svars == <<sconnected, swriter, spc, scmd, nextCmd, wire, answered, rbuf, data,
           sresult, sdisc, keepalive_interval>>

qvars == <<running, worker_task, queue, unfinished, last_set, wpc, wcur, wcancel,
           tpc, twait, call, fut, outcome, sent, nextQ>>

tvars == <<now, c_last, q_last, tp, twake, qw, cw, paced>>

cvars == <<buffer, received, result, cpc>>

evars == <<protocol, account_arg, account_number, ecall, eaccount, encoded,
          ewire, esend>>

uvars == <<online, areas, zones, said_areas, said_zones, wcall, wresult, wcalls>>

kvars == <<kmsg, kevent>>

lvars == <<callbacks, arrived, lcur, lidx, lrun, ldone, handed>>

hvars == <<keepalive_task, loop_pc, loop_cancel, hconn, hpc, hwait, hret, hinterval>>

vars == <<pvars, svars, qvars, tvars, cvars, evars, uvars, kvars, lvars, hvars>>

\* ------------------------------------------------------------ connection.py
\* DMPConnection.is_connected
is_connected(p) ==
    connected[p] /\ writer[p] # "none" /\ writer[p] # "closing"

\* DMPPanel.is_connected
panel_is_connected(p) == hasConn[p] /\ is_connected(p)

\* key = (host, self.port, account)
KeyOf(host, account) == <<host, DEFAULT_PORT, account>>

Keys == {KeyOf(h, a) : h \in Hosts, a \in Accounts}

\* `key in _ACTIVE_CONNECTIONS`, the guard of DMPPanel.connect
GuardRejects(key) == key \in ACTIVE_CONNECTIONS

\* A step of the panel model leaves the other components alone.
PFrame ==
    UNCHANGED <<svars, qvars, tvars, cvars, evars, uvars, kvars, lvars, hvars>>

\* A step of the send model leaves the other components alone.
SFrame ==
    UNCHANGED <<pvars, qvars, tvars, cvars, evars, uvars, kvars, lvars, hvars>>

\* A step of the queue model leaves the other components alone.
QFrame ==
    UNCHANGED <<pvars, svars, tvars, cvars, evars, uvars, kvars, lvars, hvars>>

\* A step of the pacing model leaves the other components alone.
TFrame ==
    UNCHANGED <<pvars, svars, qvars, cvars, evars, uvars, kvars, lvars, hvars>>

\* A step of the codec model leaves the other components alone.
CFrame ==
    UNCHANGED <<pvars, svars, qvars, tvars, evars, uvars, kvars, lvars, hvars>>

\* A step of the encoding model leaves the other components alone.
EFrame ==
    UNCHANGED <<pvars, svars, qvars, tvars, cvars, uvars, kvars, lvars, hvars>>

\* A step of the cache model leaves the other components alone.
UFrame ==
    UNCHANGED <<pvars, svars, qvars, tvars, cvars, evars, kvars, lvars, hvars>>

\* A step of the classifier leaves the other components alone.
KFrame == UNCHANGED <<pvars, svars, qvars, tvars, cvars, evars, uvars, lvars, hvars>>

\* A step of the listener leaves the other components alone.
LFrame == UNCHANGED <<pvars, svars, qvars, tvars, cvars, evars, uvars, kvars, hvars>>

\* ----------------------------------------------------------------- panel.py
InitPanel ==
    /\ ACTIVE_CONNECTIONS = {}
    /\ hasConn = [p \in Panels |-> FALSE]
    /\ connKey = [p \in Panels |-> NoKey]
    /\ connected = [p \in Panels |-> FALSE]
    /\ writer = [p \in Panels |-> "none"]
    /\ ppc = [p \in Panels |-> "idle"]
    /\ afterDisc = [p \in Panels |-> "return"]
    /\ presult = [p \in Panels |-> "none"]
    /\ session = [p \in Panels |-> NoKey]
    /\ pcause = [p \in Panels |-> "none"]

\* DMPPanel.connect up to its first suspension: the already-connected return,
\* the guard, the construction of the DMPConnection and the start of
\* DMPConnection.connect (asyncio.open_connection).
ConnectCall(p, host, account) ==
    /\ ppc[p] = "idle"
    /\ IF panel_is_connected(p)
       THEN /\ presult' = [presult EXCEPT ![p] = "already"]
            /\ UNCHANGED <<ACTIVE_CONNECTIONS, hasConn, connKey, connected,
                           writer, ppc, afterDisc, session>>
       ELSE IF GuardRejects(KeyOf(host, account))
       THEN /\ presult' = [presult EXCEPT ![p] = "DMPConnectionError"]
            /\ UNCHANGED <<ACTIVE_CONNECTIONS, hasConn, connKey, connected,
                           writer, ppc, afterDisc, session>>
       ELSE /\ hasConn' = [hasConn EXCEPT ![p] = TRUE]
            /\ connKey' = [connKey EXCEPT ![p] = KeyOf(host, account)]
            /\ connected' = [connected EXCEPT ![p] = FALSE]
            /\ writer' = [writer EXCEPT ![p] = "none"]
            /\ ppc' = [ppc EXCEPT ![p] = "opening"]
            /\ presult' = [presult EXCEPT ![p] = "none"]
            /\ session' = [session EXCEPT ![p] = NoKey]
            /\ UNCHANGED <<ACTIVE_CONNECTIONS, afterDisc>>
    /\ UNCHANGED pcause
    /\ PFrame

\* asyncio.open_connection succeeded: _connected = True, then _authenticate
\* writes the auth command and waits for the answer.
OpenOk(p) ==
    /\ ppc[p] = "opening"
    /\ connected' = [connected EXCEPT ![p] = TRUE]
    /\ writer' = [writer EXCEPT ![p] = "open"]
    /\ ppc' = [ppc EXCEPT ![p] = "auth"]
    /\ UNCHANGED <<ACTIVE_CONNECTIONS, hasConn, connKey, afterDisc, presult, session>>
    /\ UNCHANGED pcause
    /\ PFrame

\* What wait_for(open_connection(...)) raises when the stream is not opened
OpenErrors == {"OSError", "TimeoutError"}

\* Faulty handlers: every failure of the open is a DMPConnectionError
RaisedAlwaysConnectionError(cause) == "DMPConnectionError"

\* The handlers of DMPConnection.connect: `except asyncio.TimeoutError`
\* raises DMPTimeoutError, `except OSError` raises DMPConnectionError.
Raised(cause) ==
    IF cause = "TimeoutError" THEN "DMPTimeoutError" ELSE "DMPConnectionError"

\* asyncio.open_connection failed (OSError) or did not complete within the
\* timeout (TimeoutError): connect() raises, `from e`.
OpenFail(p, cause) ==
    /\ ppc[p] = "opening"
    /\ ppc' = [ppc EXCEPT ![p] = "idle"]
    /\ presult' = [presult EXCEPT ![p] = Raised(cause)]
    /\ pcause' = [pcause EXCEPT ![p] = cause]
    /\ UNCHANGED <<ACTIVE_CONNECTIONS, hasConn, connKey, connected, writer,
                   afterDisc, session>>
    /\ PFrame

\* A faulty _authenticate: without the `self._connected = False` of line 166
AuthFailStaysConnected(p) ==
    /\ ppc[p] = "auth"
    /\ ppc' = [ppc EXCEPT ![p] = "idle"]
    /\ presult' = [presult EXCEPT ![p] = "DMPAuthenticationError"]
    /\ UNCHANGED <<ACTIVE_CONNECTIONS, hasConn, connKey, connected, writer,
                   afterDisc, session>>
    /\ UNCHANGED pcause
    /\ PFrame

\* _authenticate raised: _connected = False, DMPAuthenticationError.
AuthFail(p) ==
    /\ ppc[p] = "auth"
    /\ connected' = [connected EXCEPT ![p] = FALSE]
    /\ ppc' = [ppc EXCEPT ![p] = "idle"]
    /\ presult' = [presult EXCEPT ![p] = "DMPAuthenticationError"]
    /\ UNCHANGED <<ACTIVE_CONNECTIONS, hasConn, connKey, writer, afterDisc, session>>
    /\ UNCHANGED pcause
    /\ PFrame

\* `_ACTIVE_CONNECTIONS.add(key)`
Register(key) == ACTIVE_CONNECTIONS \cup {key}

\* `_ACTIVE_CONNECTIONS.discard(key)`
Unregister(key) == ACTIVE_CONNECTIONS \ {key}

\* _authenticate returned: DMPConnection.connect returns, the key is
\* registered, and update_status starts.  update_status raises at once when
\* the panel is not connected; the handler then calls disconnect(), which
\* returns at once for the same reason, and connect() re-raises.
AuthOk(p) ==
    /\ ppc[p] = "auth"
    /\ ACTIVE_CONNECTIONS' = Register(connKey[p])
    /\ IF panel_is_connected(p)
       THEN /\ ppc' = [ppc EXCEPT ![p] = "init_status"]
            /\ UNCHANGED presult
       ELSE /\ ppc' = [ppc EXCEPT ![p] = "idle"]
            /\ presult' = [presult EXCEPT ![p] = "DMPConnectionError"]
    /\ UNCHANGED <<hasConn, connKey, connected, writer, afterDisc, session>>
    /\ UNCHANGED pcause
    /\ PFrame

\* The initial update_status returned: connect() returns.
InitStatusOk(p) ==
    /\ ppc[p] = "init_status"
    /\ ppc' = [ppc EXCEPT ![p] = "idle"]
    /\ presult' = [presult EXCEPT ![p] = "ok"]
    /\ session' = [session EXCEPT ![p] = connKey[p]]
    /\ UNCHANGED <<ACTIVE_CONNECTIONS, hasConn, connKey, connected, writer, afterDisc>>
    /\ UNCHANGED pcause
    /\ PFrame

\* DMPPanel.disconnect up to its first suspension, entered by a caller
\* (then = "return") or by connect()'s exception handler (then = "raise").
DisconnectBody(p, then) ==
    IF ~panel_is_connected(p)
    THEN /\ ppc' = [ppc EXCEPT ![p] = "idle"]
         /\ presult' = [presult EXCEPT ![p] =
                IF then = "raise" THEN "StatusError" ELSE "disconnected"]
         /\ UNCHANGED <<ACTIVE_CONNECTIONS, hasConn, connKey, connected, writer,
                        afterDisc, session>>
    ELSE /\ ACTIVE_CONNECTIONS' = Unregister(connKey[p])
         /\ ppc' = [ppc EXCEPT ![p] = "disc_send"]
         /\ afterDisc' = [afterDisc EXCEPT ![p] = then]
         /\ UNCHANGED <<hasConn, connKey, connected, writer, presult, session>>

\* The initial update_status raised: `await self.disconnect(); raise`.
InitStatusFail(p) ==
    /\ ppc[p] = "init_status"
    /\ DisconnectBody(p, "raise")
    /\ UNCHANGED pcause
    /\ PFrame

\* A caller calls DMPPanel.disconnect().
DisconnectCall(p) ==
    /\ ppc[p] = "idle"
    /\ DisconnectBody(p, "return")
    /\ UNCHANGED pcause
    /\ PFrame

\* DMPConnection.disconnect: the disconnect command was sent (or failed, which
\* is only logged); finally: writer.close(), then wait_closed().
DiscSendDone(p) ==
    /\ ppc[p] = "disc_send"
    /\ writer' = [writer EXCEPT ![p] = "closing"]
    /\ ppc' = [ppc EXCEPT ![p] = "disc_close"]
    /\ UNCHANGED <<ACTIVE_CONNECTIONS, hasConn, connKey, connected, afterDisc,
                   presult, session>>
    /\ UNCHANGED pcause
    /\ PFrame

\* wait_closed() returned: the session's fields are reset, the panel drops
\* its connection, and disconnect() returns.
DiscCloseDone(p) ==
    /\ ppc[p] = "disc_close"
    /\ writer' = [writer EXCEPT ![p] = "none"]
    /\ connected' = [connected EXCEPT ![p] = FALSE]
    /\ hasConn' = [hasConn EXCEPT ![p] = FALSE]
    /\ connKey' = [connKey EXCEPT ![p] = NoKey]
    /\ ppc' = [ppc EXCEPT ![p] = "idle"]
    /\ presult' = [presult EXCEPT ![p] =
            IF afterDisc[p] = "raise" THEN "StatusError" ELSE "disconnected"]
    /\ afterDisc' = [afterDisc EXCEPT ![p] = "return"]
    /\ UNCHANGED <<ACTIVE_CONNECTIONS, session>>
    /\ UNCHANGED pcause
    /\ PFrame

\* The stream is lost (reset by the peer): the transport is closing from then
\* on, writer.is_closing() is true.
PeerClose(p) ==
    /\ writer[p] = "open"
    /\ writer' = [writer EXCEPT ![p] = "closing"]
    /\ UNCHANGED <<ACTIVE_CONNECTIONS, hasConn, connKey, connected, ppc,
                   afterDisc, presult, session>>
    /\ UNCHANGED pcause
    /\ PFrame

NextPanel ==
    \E p \in Panels :
        \/ \E h \in Hosts, a \in Accounts : ConnectCall(p, h, a)
        \/ OpenOk(p)
        \/ \E cause \in OpenErrors : OpenFail(p, cause)
        \/ AuthFail(p)
        \/ AuthOk(p)
        \/ InitStatusOk(p)
        \/ InitStatusFail(p)
        \/ DisconnectCall(p)
        \/ DiscSendDone(p)
        \/ DiscCloseDone(p)
        \/ PeerClose(p)

\* ------------------------------------------------- connection.py: sending
\* Tasks that call send_command on the one connection: two callers of the
\* panel's wrappers (arm_areas, update_status, ...) and the keep-alive loop.
Callers == {"c1", "c2"}
KeepAlive == "ka"
Senders == Callers \cup {KeepAlive}

\* Commands handed to send_command in one run
MaxSends == 3

InitSend ==
    /\ sconnected = FALSE
    /\ swriter = "none"
    /\ spc = [s \in Senders |-> IF s = KeepAlive THEN "off" ELSE "idle"]
    /\ scmd = [s \in Senders |-> 0]
    /\ nextCmd = 1
    /\ wire = <<>>
    /\ answered = 0
    /\ rbuf = <<>>
    /\ data = [s \in Senders |-> <<>>]
    /\ sresult = [s \in Senders |-> "none"]
    /\ sdisc = FALSE
    /\ keepalive_interval = 10

\* DMPConnection.is_connected of the connection the senders share
s_is_connected == sconnected /\ swriter # "none" /\ swriter # "closing"

\* A faulty keep-alive loop: without the try/except around keep_alive() an
\* exception, like a return, leaves the loop.
AfterSendEndsLoop(s) == IF s = KeepAlive THEN "off" ELSE "idle"

\* Where a task goes when its send_command has returned or raised
AfterSend(s) == IF s = KeepAlive THEN "sleep" ELSE "idle"

\* _send_raw: writer.write(data)
Write(s, c) ==
    /\ wire' = Append(wire, c)
    /\ spc' = [spc EXCEPT ![s] = "settle"]

\* A faulty send_command: without the is_connected test of line 130
SendUnchecked(s, wait) ==
    /\ scmd' = [scmd EXCEPT ![s] = nextCmd]
    /\ nextCmd' = nextCmd + 1
    /\ data' = [data EXCEPT ![s] = <<>>]
    /\ sresult' = [sresult EXCEPT ![s] = "none"]
    /\ IF wait
       THEN /\ spc' = [spc EXCEPT ![s] = "rate"]
            /\ UNCHANGED wire
       ELSE Write(s, nextCmd)

\* send_command up to its first suspension: the is_connected test, then
\* _rate_limit, which sleeps (wait = TRUE) when the previous write is less
\* than RATE_LIMIT_SECONDS old, else the command is written at once.
send_command(s, wait) ==
    IF ~s_is_connected
    THEN /\ sresult' = [sresult EXCEPT ![s] = "DMPConnectionError"]
         /\ spc' = [spc EXCEPT ![s] = AfterSend(s)]
         /\ UNCHANGED <<scmd, nextCmd, wire, data>>
    ELSE /\ scmd' = [scmd EXCEPT ![s] = nextCmd]
         /\ nextCmd' = nextCmd + 1
         /\ data' = [data EXCEPT ![s] = <<>>]
         /\ sresult' = [sresult EXCEPT ![s] = "none"]
         /\ IF wait
            THEN /\ spc' = [spc EXCEPT ![s] = "rate"]
                 /\ UNCHANGED wire
            ELSE Write(s, nextCmd)

\* A caller's wrapper calls send_command.
SendCall(s, wait) ==
    /\ s \in Callers
    /\ spc[s] = "idle"
    /\ nextCmd <= MaxSends
    /\ (wait => wire # <<>>)
    /\ send_command(s, wait)
    /\ UNCHANGED <<sconnected, swriter, answered, rbuf>>
    /\ UNCHANGED <<sdisc, keepalive_interval>>
    /\ SFrame

\* The sleep of _rate_limit is over: encode and write.
RateDone(s) ==
    /\ spc[s] = "rate"
    /\ Write(s, scmd[s])
    /\ UNCHANGED <<sconnected, swriter, scmd, nextCmd, answered, rbuf, data, sresult>>
    /\ UNCHANGED <<sdisc, keepalive_interval>>
    /\ SFrame

\* drain() and the settle sleep of _receive are over: the read loop starts.
SettleDone(s) ==
    /\ spc[s] = "settle"
    /\ spc' = [spc EXCEPT ![s] = "read"]
    /\ UNCHANGED <<sconnected, swriter, scmd, nextCmd, wire, answered, rbuf, data, sresult>>
    /\ UNCHANGED <<sdisc, keepalive_interval>>
    /\ SFrame

\* reader.read(4096) returns what the buffer holds: data += chunk.
ReadChunk(s) ==
    /\ spc[s] = "read"
    /\ rbuf # <<>>
    /\ data' = [data EXCEPT ![s] = data[s] \o rbuf]
    /\ rbuf' = <<>>
    /\ UNCHANGED <<sconnected, swriter, spc, scmd, nextCmd, wire, answered, sresult>>
    /\ UNCHANGED <<sdisc, keepalive_interval>>
    /\ SFrame

\* No more data within the chunk timeout, or end of stream: _receive returns
\* and send_command returns decode_response(data).
ReadEnd(s) ==
    /\ spc[s] = "read"
    /\ rbuf = <<>>
    /\ sresult' = [sresult EXCEPT ![s] = "response"]
    /\ spc' = [spc EXCEPT ![s] = AfterSend(s)]
    /\ scmd' = [scmd EXCEPT ![s] = 0]
    /\ UNCHANGED <<sconnected, swriter, nextCmd, wire, answered, rbuf, data>>
    /\ UNCHANGED <<sdisc, keepalive_interval>>
    /\ SFrame

\* drain() or read() raised: send_command raises DMPConnectionError.
SendError(s) ==
    /\ spc[s] \in {"settle", "read"}
    /\ swriter = "closing"
    /\ sresult' = [sresult EXCEPT ![s] = "DMPConnectionError"]
    /\ spc' = [spc EXCEPT ![s] = AfterSend(s)]
    /\ scmd' = [scmd EXCEPT ![s] = 0]
    /\ UNCHANGED <<sconnected, swriter, nextCmd, wire, answered, rbuf, data>>
    /\ UNCHANGED <<sdisc, keepalive_interval>>
    /\ SFrame

\* DMPConnection.keep_alive: send the keep-alive command with the pacing and
\* read logic of send_command.
keep_alive(wait) == send_command(KeepAlive, wait)

\* Intervals, in seconds, handed to start_keepalive
KeepaliveIntervals == {0, 3}

\* The interval the loop sleeps: max(1.0, float(interval))
ClampInterval(interval) == IF interval < 1 THEN 1 ELSE interval

\* DMPPanel.start_keepalive: requires a connected panel, stores the clamped
\* interval and creates the loop task.
StartKeepalive(interval) ==
    /\ spc[KeepAlive] = "off"
    /\ s_is_connected
    /\ keepalive_interval' = ClampInterval(interval)
    /\ spc' = [spc EXCEPT ![KeepAlive] = "sleep"]
    /\ UNCHANGED <<sconnected, swriter, scmd, nextCmd, wire, answered, rbuf, data, sresult>>
    /\ UNCHANGED sdisc
    /\ SFrame

\* One turn of the keep-alive loop: it ends when the panel is not connected,
\* else it calls keep_alive().
KeepaliveTurn(wait) ==
    /\ spc[KeepAlive] = "sleep"
    /\ IF ~s_is_connected
       THEN /\ spc' = [spc EXCEPT ![KeepAlive] = "off"]
            /\ UNCHANGED <<scmd, nextCmd, wire, data, sresult>>
       ELSE /\ nextCmd <= MaxSends
            /\ (wait => wire # <<>>)
            /\ keep_alive(wait)
    /\ UNCHANGED <<sconnected, swriter, answered, rbuf>>
    /\ UNCHANGED <<sdisc, keepalive_interval>>
    /\ SFrame

\* DMPConnection.connect on the never-connected session: the stream is
\* opened and the handshake succeeds (ok, Ready) or raises (_connected False).
SessionConnect(ok) ==
    /\ ~sconnected
    /\ swriter = "none"
    /\ wire = <<>>
    /\ sconnected' = ok
    /\ swriter' = "open"
    /\ sdisc' = FALSE
    /\ UNCHANGED keepalive_interval
    /\ UNCHANGED <<spc, scmd, nextCmd, wire, answered, rbuf, data, sresult>>
    /\ SFrame

\* DMPConnection.disconnect, called when no send is in progress, up to its
\* return: nothing when is_connected is false (line 89-90), else the
\* disconnect command is sent, the stream closed (failures of both are
\* logged) and the fields are reset.
SessionDisconnect ==
    /\ \A s \in Senders : spc[s] \in {"idle", "off", "sleep"}
    /\ IF s_is_connected
       THEN /\ sconnected' = FALSE
            /\ swriter' = "none"
       ELSE UNCHANGED <<sconnected, swriter>>
    /\ sdisc' = TRUE
    /\ UNCHANGED keepalive_interval
    /\ UNCHANGED <<spc, scmd, nextCmd, wire, answered, rbuf, data, sresult>>
    /\ SFrame

\* The panel answers the next unanswered command on the wire.
PanelAnswers ==
    /\ answered < Len(wire)
    /\ swriter = "open"
    /\ answered' = answered + 1
    /\ rbuf' = Append(rbuf, wire[answered + 1])
    /\ UNCHANGED <<sconnected, swriter, spc, scmd, nextCmd, wire, data, sresult>>
    /\ UNCHANGED <<sdisc, keepalive_interval>>
    /\ SFrame

\* The stream of the shared connection is lost (reset by the peer).
PeerCloseS ==
    /\ swriter = "open"
    /\ swriter' = "closing"
    /\ UNCHANGED <<sconnected, spc, scmd, nextCmd, wire, answered, rbuf, data, sresult>>
    /\ UNCHANGED <<sdisc, keepalive_interval>>
    /\ SFrame

NextSend ==
    \/ \E s \in Callers, wait \in BOOLEAN : SendCall(s, wait)
    \/ \E s \in Senders :
        \/ RateDone(s)
        \/ SettleDone(s)
        \/ ReadChunk(s)
        \/ ReadEnd(s)
        \/ SendError(s)
    \/ \E interval \in KeepaliveIntervals : StartKeepalive(interval)
    \/ \E wait \in BOOLEAN : KeepaliveTurn(wait)
    \/ PanelAnswers
    \/ PeerCloseS
    \/ \E ok \in BOOLEAN : SessionConnect(ok)
    \/ SessionDisconnect

\* ---------------------------------------------------------------- queue.py
\* Tasks that call start() and stop() on the queue; every enqueue() call is
\* made by a task of its own, named by the number of the command
Tasks == {"t1", "t2"}

\* Worker tasks created in one run (one per effective start())
MaxWorkers == 2
Workers == 1..MaxWorkers

\* Commands enqueued in one run
MaxCmds == 3
Cmds == 1..MaxCmds

\* What send_command may raise
SendErrors == {"DMPConnectionError"}

InitQueue ==
    /\ running = FALSE
    /\ worker_task = 0
    /\ queue = <<>>
    /\ unfinished = 0
    /\ last_set = FALSE
    /\ wpc = [w \in Workers |-> "none"]
    /\ wcur = [w \in Workers |-> 0]
    /\ wcancel = [w \in Workers |-> FALSE]
    /\ tpc = [t \in Tasks |-> "idle"]
    /\ twait = [t \in Tasks |-> 0]
    /\ call = [c \in Cmds |-> "none"]
    /\ fut = [c \in Cmds |-> "none"]
    /\ outcome = [c \in Cmds |-> "none"]
    /\ sent = <<>>
    /\ nextQ = 1

\* asyncio.create_task(self._worker()): the next worker task not yet created
NewWorker == CHOOSE w \in Workers : wpc[w] = "none" /\ \A v \in Workers : v < w => wpc[v] # "none"

\* A faulty start(): without the `if self._running: return` of line 44
StartUnguarded(t) ==
    /\ tpc[t] = "idle"
    /\ \E w \in Workers : wpc[w] = "none"
    /\ running' = TRUE
    /\ wpc' = [wpc EXCEPT ![NewWorker] = "new"]
    /\ worker_task' = NewWorker
    /\ UNCHANGED <<queue, unfinished, last_set, wcur, wcancel, tpc, twait, call,
                   fut, outcome, sent, nextQ>>
    /\ QFrame

\* CommandQueue.start
Start(t) ==
    /\ tpc[t] = "idle"
    /\ IF running
       THEN UNCHANGED <<running, worker_task, wpc>>
       ELSE /\ \E w \in Workers : wpc[w] = "none"
            /\ running' = TRUE
            /\ wpc' = [wpc EXCEPT ![NewWorker] = "new"]
            /\ worker_task' = NewWorker
    /\ UNCHANGED <<queue, unfinished, last_set, wcur, wcancel, tpc, twait, call,
                   fut, outcome, sent, nextQ>>
    /\ QFrame

\* stop(), from the return of `await self._queue.join()` to the next
\* suspension: cancel the worker task and await it, or finish at once.
StopAfterJoin(t) ==
    IF worker_task # 0 /\ wpc[worker_task] # "done"
    THEN /\ wcancel' = [wcancel EXCEPT ![worker_task] = TRUE]
         /\ twait' = [twait EXCEPT ![t] = worker_task]
         /\ tpc' = [tpc EXCEPT ![t] = "await_worker"]
         /\ UNCHANGED worker_task
    ELSE /\ worker_task' = 0
         /\ tpc' = [tpc EXCEPT ![t] = "idle"]
         /\ UNCHANGED <<wcancel, twait>>

\* CommandQueue.stop up to its first suspension
StopCall(t) ==
    /\ tpc[t] = "idle"
    /\ IF ~running
       THEN UNCHANGED <<running, worker_task, wcancel, tpc, twait>>
       ELSE /\ running' = FALSE
            /\ IF unfinished > 0
               THEN /\ tpc' = [tpc EXCEPT ![t] = "join"]
                    /\ UNCHANGED <<worker_task, wcancel, twait>>
               ELSE StopAfterJoin(t)
    /\ UNCHANGED <<queue, unfinished, last_set, wpc, wcur, call, fut, outcome,
                   sent, nextQ>>
    /\ QFrame

\* join() was released (the queue's unfinished count reached 0): stop() resumes.
StopResume(t) ==
    /\ tpc[t] = "woken"
    /\ StopAfterJoin(t)
    /\ UNCHANGED <<running, queue, unfinished, last_set, wpc, wcur, call, fut,
                   outcome, sent, nextQ>>
    /\ QFrame

\* `await self._worker_task` returned: _worker_task = None, stop() returns.
StopFinish(t) ==
    /\ tpc[t] = "await_worker"
    /\ wpc[twait[t]] = "done"
    /\ worker_task' = 0
    /\ twait' = [twait EXCEPT ![t] = 0]
    /\ tpc' = [tpc EXCEPT ![t] = "idle"]
    /\ UNCHANGED <<running, queue, unfinished, last_set, wpc, wcur, wcancel, call,
                   fut, outcome, sent, nextQ>>
    /\ QFrame

\* A faulty enqueue(): without the `if not self._running` test of line 93
EnqueueUnchecked ==
    /\ nextQ <= MaxCmds
    /\ call' = [call EXCEPT ![nextQ] = "accepted"]
    /\ fut' = [fut EXCEPT ![nextQ] = "pending"]
    /\ queue' = Append(queue, nextQ)
    /\ unfinished' = unfinished + 1
    /\ nextQ' = nextQ + 1
    /\ UNCHANGED <<running, worker_task, last_set, wpc, wcur, wcancel, tpc, twait,
                   outcome, sent>>
    /\ QFrame

\* CommandQueue.enqueue up to `await result_future`: RuntimeError when the
\* queue is not running, else the future is created and the item is put.
Enqueue ==
    /\ nextQ <= MaxCmds
    /\ IF ~running
       THEN /\ call' = [call EXCEPT ![nextQ] = "RuntimeError"]
            /\ UNCHANGED <<queue, unfinished, fut>>
       ELSE /\ call' = [call EXCEPT ![nextQ] = "accepted"]
            /\ fut' = [fut EXCEPT ![nextQ] = "pending"]
            /\ queue' = Append(queue, nextQ)
            /\ unfinished' = unfinished + 1
    /\ nextQ' = nextQ + 1
    /\ UNCHANGED <<running, worker_task, last_set, wpc, wcur, wcancel, tpc, twait,
                   outcome, sent>>
    /\ QFrame

\* The task waiting in `await result_future` of enqueue() is cancelled: the
\* future it waits for is cancelled with it.
CancelCaller(c) ==
    /\ fut[c] = "pending"
    /\ fut' = [fut EXCEPT ![c] = "cancelled"]
    /\ UNCHANGED <<running, worker_task, queue, unfinished, last_set, wpc, wcur,
                   wcancel, tpc, twait, call, outcome, sent, nextQ>>
    /\ QFrame

\* `while self._running`: where the worker goes at the head of its loop
LoopHead == IF running THEN "get" ELSE "done"

\* The first step of a worker task
WorkerBegin(w) ==
    /\ wpc[w] = "new"
    /\ ~wcancel[w]
    /\ wpc' = [wpc EXCEPT ![w] = LoopHead]
    /\ UNCHANGED <<running, worker_task, queue, unfinished, last_set, wcur, wcancel,
                   tpc, twait, call, fut, outcome, sent, nextQ>>
    /\ QFrame

\* queue.get() returned a command; _rate_limit_wait sleeps (wait) or, when no
\* command was executed before or enough time has passed, returns at once
\* and the command is passed to send_command.
WorkerGet(w, wait) ==
    /\ wpc[w] = "get"
    /\ ~wcancel[w]
    /\ queue # <<>>
    /\ (wait => last_set)
    /\ wcur' = [wcur EXCEPT ![w] = Head(queue)]
    /\ queue' = Tail(queue)
    /\ IF wait
       THEN /\ wpc' = [wpc EXCEPT ![w] = "rate"]
            /\ UNCHANGED sent
       ELSE /\ wpc' = [wpc EXCEPT ![w] = "send"]
            /\ sent' = Append(sent, Head(queue))
    /\ UNCHANGED <<running, worker_task, unfinished, last_set, wcancel, tpc, twait,
                   call, fut, outcome, nextQ>>
    /\ QFrame

\* queue.get() timed out after 1 s: `continue`, back to the head of the
\* loop, which ends when the queue is no longer running.
WorkerGetTimeout(w) ==
    /\ wpc[w] = "get"
    /\ ~wcancel[w]
    /\ queue = <<>>
    /\ wpc' = [wpc EXCEPT ![w] = LoopHead]
    /\ UNCHANGED <<running, worker_task, queue, unfinished, last_set, wcur, wcancel,
                   tpc, twait, call, fut, outcome, sent, nextQ>>
    /\ QFrame

\* The sleep of _rate_limit_wait is over: the command is passed to send_command.
WorkerRateDone(w) ==
    /\ wpc[w] = "rate"
    /\ ~wcancel[w]
    /\ wpc' = [wpc EXCEPT ![w] = "send"]
    /\ sent' = Append(sent, wcur[w])
    /\ UNCHANGED <<running, worker_task, queue, unfinished, last_set, wcur, wcancel,
                   tpc, twait, call, fut, outcome, nextQ>>
    /\ QFrame

\* self._queue.task_done(): one unfinished item less; at 0 every join() is released.
task_done ==
    /\ unfinished' = unfinished - 1
    /\ tpc' = [t \in Tasks |->
                 IF unfinished = 1 /\ tpc[t] = "join" THEN "woken" ELSE tpc[t]]

\* send_command returned (res = "result") or raised (res in SendErrors):
\* set_result / set_exception, then finally: task_done, _last_command_time,
\* and back to the head of the loop.  On a future its caller cancelled both
\* set_result and set_exception raise InvalidStateError, which the outer
\* `except Exception` logs after the finally clause: the loop goes on.
WorkerSendDone(w, res) ==
    /\ wpc[w] = "send"
    /\ ~wcancel[w]
    /\ outcome' = [outcome EXCEPT ![wcur[w]] = res]
    /\ fut' = [fut EXCEPT ![wcur[w]] = IF fut[wcur[w]] = "pending" THEN res ELSE @]
    /\ task_done
    /\ last_set' = TRUE
    /\ wcur' = [wcur EXCEPT ![w] = 0]
    /\ wpc' = [wpc EXCEPT ![w] = LoopHead]
    /\ UNCHANGED <<running, worker_task, queue, wcancel, twait, call, sent, nextQ>>
    /\ QFrame

\* The cancelled worker task runs: CancelledError is raised at its await.
\* Waiting in get(): the loop is left.  In _rate_limit_wait (line 128, outside
\* the inner try): the loop is left, the command is dropped without
\* task_done.  In send_command: CancelledError is no Exception, so only the
\* finally clause runs (task_done, _last_command_time), then the loop is left.
WorkerCancelled(w) ==
    /\ wcancel[w]
    /\ wpc[w] \in {"new", "get", "rate", "send"}
    /\ wpc' = [wpc EXCEPT ![w] = "done"]
    /\ wcancel' = [wcancel EXCEPT ![w] = FALSE]
    /\ IF wpc[w] = "send"
       THEN /\ task_done
            /\ last_set' = TRUE
       ELSE UNCHANGED <<unfinished, tpc, last_set>>
    /\ UNCHANGED <<running, worker_task, queue, wcur, twait, call, fut,
                   outcome, sent, nextQ>>
    /\ QFrame

NextQueue ==
    \/ Enqueue
    \/ \E c \in Cmds : CancelCaller(c)
    \/ \E t \in Tasks :
        \/ Start(t)
        \/ StopCall(t)
        \/ StopResume(t)
        \/ StopFinish(t)
    \/ \E w \in Workers :
        \/ WorkerBegin(w)
        \/ \E wait \in BOOLEAN : WorkerGet(w, wait)
        \/ WorkerGetTimeout(w)
        \/ WorkerRateDone(w)
        \/ \E res \in {"result"} \cup SendErrors : WorkerSendDone(w, res)
        \/ WorkerCancelled(w)

\* The steps the event loop takes by itself: every task that can run is run,
\* and every send_command call completes or raises.  The calls of start(),
\* stop() and enqueue() are the callers' choice.
QueueProgress ==
    \/ \E t \in Tasks : StopResume(t) \/ StopFinish(t)
    \/ \E w \in Workers :
        \/ WorkerBegin(w)
        \/ \E wait \in BOOLEAN : WorkerGet(w, wait)
        \/ WorkerGetTimeout(w)
        \/ WorkerRateDone(w)
        \/ \E res \in {"result"} \cup SendErrors : WorkerSendDone(w, res)
        \/ WorkerCancelled(w)

\* ------------------------------------ pacing: queue.py and connection.py
\* RATE_LIMIT_SECONDS (0.3 s) in ticks of the clock
RATE_LIMIT_TICKS == 2

\* How far the clock runs, and how many commands the workers take
MaxTime == 10
MaxPaced == 4

\* The worker tasks of the queue: the one start() created and the one a
\* start() during a pending stop() adds
Pacers == {"w1", "w2"}

\* A task that calls send_command on the connection itself, not through
\* the queue (a wrapper of the panel, the keep-alive loop)
Direct == "d1"

PaceSenders == Pacers \cup {Direct}

InitPace ==
    /\ now = RATE_LIMIT_TICKS
    /\ c_last = 0
    /\ q_last = 0
    /\ tp = [w \in PaceSenders |-> IF w = "w1" THEN "get" ELSE "none"]
    /\ twake = [w \in PaceSenders |-> 0]
    /\ qw = [w \in PaceSenders |-> 0]
    /\ cw = [w \in PaceSenders |-> 0]
    /\ paced = 0

\* _send_raw: write, drain, _last_command_time = now; then _receive starts
\* with its settle sleep of RATE_LIMIT_SECONDS.
PaceWrite(w) ==
    /\ c_last' = now
    /\ tp' = [tp EXCEPT ![w] = "settle"]
    /\ twake' = [twake EXCEPT ![w] = now + RATE_LIMIT_TICKS]

\* DMPConnection._rate_limit, then _send_raw: sleep the rest of the interval
\* since the last write if less than the interval has passed, then write.
rate_limit(w) ==
    IF now - c_last < RATE_LIMIT_TICKS
    THEN /\ tp' = [tp EXCEPT ![w] = "cwait"]
         /\ twake' = [twake EXCEPT ![w] = c_last + RATE_LIMIT_TICKS]
         /\ cw' = [cw EXCEPT ![w] = RATE_LIMIT_TICKS - (now - c_last)]
         /\ UNCHANGED c_last
    ELSE /\ PaceWrite(w)
         /\ UNCHANGED cw

\* A second worker task is alive: start() was called while a stop() waited
\* in join().
PaceSecondWorker ==
    /\ tp["w2"] = "none"
    /\ tp' = [tp EXCEPT !["w2"] = "get"]
    /\ UNCHANGED <<now, c_last, q_last, twake, qw, cw, paced>>
    /\ TFrame

\* The worker takes a command: _rate_limit_wait returns at once when no
\* command was executed yet or the interval has passed, and send_command is
\* called; else it sleeps the rest of the interval.
PaceTake(w) ==
    /\ tp[w] = "get"
    /\ paced < MaxPaced
    /\ paced' = paced + 1
    /\ IF q_last # 0 /\ now - q_last < RATE_LIMIT_TICKS
       THEN /\ tp' = [tp EXCEPT ![w] = "qwait"]
            /\ twake' = [twake EXCEPT ![w] = q_last + RATE_LIMIT_TICKS]
            /\ qw' = [qw EXCEPT ![w] = RATE_LIMIT_TICKS - (now - q_last)]
            /\ cw' = [cw EXCEPT ![w] = 0]
            /\ UNCHANGED c_last
       ELSE /\ qw' = [qw EXCEPT ![w] = 0]
            /\ rate_limit(w)
    /\ UNCHANGED <<now, q_last>>
    /\ TFrame

\* The direct caller calls send_command.
PaceDirectCall ==
    /\ tp[Direct] \in {"none", "idle"}
    /\ paced < MaxPaced
    /\ paced' = paced + 1
    /\ rate_limit(Direct)
    /\ UNCHANGED <<now, q_last, qw>>
    /\ TFrame

\* The sleep of _rate_limit_wait is over: send_command is called.
PaceQueueWake(w) ==
    /\ tp[w] = "qwait"
    /\ now = twake[w]
    /\ rate_limit(w)
    /\ UNCHANGED <<now, q_last, qw, paced>>
    /\ TFrame

\* The sleep of _rate_limit is over: the command is written.
PaceConnWake(w) ==
    /\ tp[w] = "cwait"
    /\ now = twake[w]
    /\ PaceWrite(w)
    /\ UNCHANGED <<now, q_last, qw, cw, paced>>
    /\ TFrame

\* The settle sleep of _receive is over: the read loop starts.
PaceSettled(w) ==
    /\ tp[w] = "settle"
    /\ now = twake[w]
    /\ tp' = [tp EXCEPT ![w] = "read"]
    /\ UNCHANGED <<now, c_last, q_last, twake, qw, cw, paced>>
    /\ TFrame

\* The read loop ended, send_command returned or raised.  In a worker,
\* finally: task_done and the queue's _last_command_time = now.
PaceDone(w) ==
    /\ tp[w] = "read"
    /\ IF w \in Pacers
       THEN /\ q_last' = now
            /\ tp' = [tp EXCEPT ![w] = "get"]
       ELSE /\ tp' = [tp EXCEPT ![w] = "idle"]
            /\ UNCHANGED q_last
    /\ UNCHANGED <<now, c_last, twake, qw, cw, paced>>
    /\ TFrame

\* The clock advances, unless a sleep is due.
Tick ==
    /\ now < MaxTime
    /\ \A w \in PaceSenders : tp[w] \in {"qwait", "cwait", "settle"} => twake[w] > now
    /\ now' = now + 1
    /\ UNCHANGED <<c_last, q_last, tp, twake, qw, cw, paced>>
    /\ TFrame

NextPace ==
    \/ PaceSecondWorker
    \/ PaceDirectCall
    \/ \E w \in Pacers :
        \/ PaceTake(w)
        \/ PaceQueueWake(w)
    \/ \E w \in PaceSenders :
        \/ PaceConnWake(w)
        \/ PaceSettled(w)
        \/ PaceDone(w)
    \/ Tick

\* The one task whose start() and stop() calls follow one another
SeqCaller == "t1"

\* The queue with sequential start()/stop() calls: a call is made when the
\* call before it has returned.
NextQueueSeq ==
    \/ Enqueue
    \/ \E c \in Cmds : CancelCaller(c)
    \/ Start(SeqCaller)
    \/ StopCall(SeqCaller)
    \/ StopResume(SeqCaller)
    \/ StopFinish(SeqCaller)
    \/ \E w \in Workers :
        \/ WorkerBegin(w)
        \/ \E wait \in BOOLEAN : WorkerGet(w, wait)
        \/ WorkerGetTimeout(w)
        \/ WorkerRateDone(w)
        \/ \E res \in {"result"} \cup SendErrors : WorkerSendDone(w, res)
        \/ WorkerCancelled(w)

\* -------------------------------------------------------------- protocol.py
\* Text is a TLA+ string.  The two delimiters are control characters (0x02,
\* 0x1e), which a TLA+ string cannot hold: each is written as a character
\* that no frame uses otherwise.
MESSAGE_PREFIX == "@"
MESSAGE_TERMINATOR == "\r"
RESPONSE_DELIMITER == "^"
ZONE_DELIMITER == "|"

Min(a, b) == IF a < b THEN a ELSE b

\* s[a:b]
Slice(s, a, b) == SubSeq(s, a + 1, Min(b, Len(s)))

\* s[a:]
From(s, a) == SubSeq(s, a + 1, Len(s))

\* s.startswith(p)
StartsWith(s, p) == Slice(s, 0, Len(p)) = p

\* s.find(sub): the least index where sub occurs, -1 if none
Find(s, sub) ==
    LET hits == {i \in 0..(Len(s) - Len(sub)) : Slice(s, i, i + Len(sub)) = sub}
    IN  IF hits = {} THEN -1 ELSE CHOOSE i \in hits : \A j \in hits : i <= j

\* s.split(d)
RECURSIVE Split(_, _)
Split(s, d) ==
    LET pos == Find(s, d)
    IN  IF pos = -1 THEN <<s>>
        ELSE <<Slice(s, 0, pos)>> \o Split(From(s, pos + Len(d)), d)

\* Characters str.strip() removes
Whitespace == {" ", "\r", "\n", "\t"}

RECURSIVE LStrip(_)
LStrip(s) == IF Len(s) > 0 /\ Head(s) \in Whitespace THEN LStrip(Tail(s)) ELSE s

RECURSIVE RStrip(_)
RStrip(s) ==
    IF Len(s) > 0 /\ From(s, Len(s) - 1) \in Whitespace
    THEN RStrip(Slice(s, 0, Len(s) - 1)) ELSE s

\* s.strip()
Strip(s) == LStrip(RStrip(s))

\* s.rstrip("\r")
RECURSIVE RStripCR(_)
RStripCR(s) ==
    IF Len(s) > 0 /\ From(s, Len(s) - 1) = "\r"
    THEN RStripCR(Slice(s, 0, Len(s) - 1)) ELSE s

\* An empty dict
EmptyDict == [k \in {} |-> k]

\* A faulty merge: a number the dict already holds keeps its first value
PutKeepFirst(d, k, v) == [x \in DOMAIN d \cup {k} |-> IF x \in DOMAIN d THEN d[x] ELSE v]

\* d[k] = v
Put(d, k, v) == [x \in DOMAIN d \cup {k} |-> IF x = k THEN v ELSE d[x]]

\* The raw state characters of an area and of a zone
AreaStates == {"A", "D", "S"}
ZoneStates == {"N", "O", "S", "X", "L", "M"}

\* What decode_response returns: None, "ACK", "NAK", a StatusResponse, a
\* UserCodesResponse or a UserProfilesResponse
Value(kind, area_dict, zone_dict, records, has_more, last_number) ==
    [kind |-> kind, areas |-> area_dict, zones |-> zone_dict, records |-> records,
     has_more |-> has_more, last_number |-> last_number]

ResultNone == Value("None", EmptyDict, EmptyDict, <<>>, FALSE, <<>>)
ResultACK == Value("ACK", EmptyDict, EmptyDict, <<>>, FALSE, <<>>)
ResultNAK == Value("NAK", EmptyDict, EmptyDict, <<>>, FALSE, <<>>)
StatusResponse(area_dict, zone_dict) ==
    Value("StatusResponse", area_dict, zone_dict, <<>>, FALSE, <<>>)

\* A faulty normalisation: the raw character is kept whatever it is
RawState(state_char) == state_char

\* The state kept for an area: the raw character if it is a defined one
AreaState(state_char) == IF state_char \in AreaStates THEN state_char ELSE "unknown"

\* The state kept for a zone
ZoneState(state_char) == IF state_char \in ZoneStates THEN state_char ELSE "unknown"

\* One item of a status payload: A[XXX][State][Name] or L[XXX][State][Name]
ParseItem(item, response) ==
    IF Len(item) < 5 THEN response
    ELSE LET item_type == Slice(item, 0, 1)
             number == Slice(item, 1, 4)
             state_char == Slice(item, 4, 5)
             name == Strip(From(item, 5))
             area_num == Strip(number)
         IN  IF item_type = "A"
             THEN IF area_num = "" THEN response
                  ELSE [response EXCEPT !.areas = Put(@, area_num,
                           [number |-> area_num,
                            state |-> AreaState(state_char),
                            name |-> name])]
             ELSE IF item_type = "L"
             THEN [response EXCEPT !.zones = Put(@, number,
                      [number |-> number,
                       state |-> ZoneState(state_char),
                       name |-> name])]
             ELSE response

RECURSIVE ParseItems(_, _)
ParseItems(items, response) ==
    IF items = <<>> THEN response
    ELSE ParseItems(Tail(items), ParseItem(Head(items), response))

\* _parse_status_line
parse_status_line(status_data, response) ==
    IF status_data = "" \/ StartsWith(status_data, "-\r") THEN response
    ELSE ParseItems(Split(status_data, ZONE_DELIMITER), response)

\* The digits the cipher rotates
CipherDigits == "0123456789"

\* One character of the cipher: a digit is moved by `shift` places
CipherChar(c, shift) ==
    LET pos == Find(CipherDigits, c)
    IN  IF pos = -1 THEN c
        ELSE LET q == (pos + shift) % Len(CipherDigits) IN Slice(CipherDigits, q, q + 1)

RECURSIVE CipherString(_, _)
CipherString(s, shift) ==
    IF Len(s) = 0 THEN s ELSE CipherChar(Head(s), shift) \o CipherString(Tail(s), shift)

\* DMPCrypto.decrypt_string: deterministic, character by character, reversible
decrypt_string(item) == CipherString(item, 3)

\* The ciphertext the panel sends for a record
encrypt_string(plain) == CipherString(plain, 7)

\* A faulty page item: the number is tracked before the length is tested
UserCodeItemTracksShort(raw, page) ==
    LET item == RStripCR(raw)
        plain == decrypt_string(item)
    IN  IF item = "" THEN page
        ELSE IF StartsWith(item, "----") THEN [page EXCEPT !.has_more = TRUE]
        ELSE IF Len(plain) < 44 THEN [page EXCEPT !.last_number = <<Slice(plain, 0, 4)>>]
        ELSE [page EXCEPT
                 !.last_number = <<Slice(plain, 0, 4)>>,
                 !.records = Append(@,
                     [number |-> Slice(plain, 0, 4),
                      code |-> Head(Split(Slice(plain, 4, 16), "F")),
                      pin |-> Head(Split(Slice(plain, 16, 22), "F")),
                      profiles |-> <<Slice(plain, 22, 25), Slice(plain, 25, 28),
                                     Slice(plain, 28, 31), Slice(plain, 31, 34)>>,
                      temp_date |-> Slice(plain, 34, 40),
                      exp_date |-> Slice(plain, 40, 44),
                      name |-> From(plain, 44)])]

\* One item of a user-codes page, folded into (users, has_more, last_number)
UserCodeItem(raw, page) ==
    LET item == RStripCR(raw)
        plain == decrypt_string(item)
    IN  IF item = "" THEN page
        ELSE IF StartsWith(item, "----") THEN [page EXCEPT !.has_more = TRUE]
        ELSE IF Len(plain) < 44 THEN page
        ELSE [page EXCEPT
                 !.last_number = <<Slice(plain, 0, 4)>>,
                 !.records = Append(@,
                     [number |-> Slice(plain, 0, 4),
                      code |-> Head(Split(Slice(plain, 4, 16), "F")),
                      pin |-> Head(Split(Slice(plain, 16, 22), "F")),
                      profiles |-> <<Slice(plain, 22, 25), Slice(plain, 25, 28),
                                     Slice(plain, 28, 31), Slice(plain, 31, 34)>>,
                      temp_date |-> Slice(plain, 34, 40),
                      exp_date |-> Slice(plain, 40, 44),
                      name |-> From(plain, 44)])]

RECURSIVE UserCodeItems(_, _)
UserCodeItems(items, page) ==
    IF items = <<>> THEN page
    ELSE UserCodeItems(Tail(items), UserCodeItem(Head(items), page))

\* _parse_user_codes_line
parse_user_codes_line(page_data) ==
    UserCodeItems(Split(page_data, ZONE_DELIMITER),
                  Value("UserCodesResponse", EmptyDict, EmptyDict, <<>>, FALSE, <<>>))

\* One item of a user-profiles page
UserProfileItem(raw, page) ==
    LET item == RStripCR(raw)
    IN  IF item = "" THEN page
        ELSE IF StartsWith(item, "----") THEN [page EXCEPT !.has_more = TRUE]
        ELSE [page EXCEPT
                 !.last_number = <<Slice(item, 0, 3)>>,
                 !.records = Append(@,
                     [number |-> Slice(item, 0, 3),
                      areas_mask |-> Slice(item, 3, 11),
                      access_areas_mask |-> Slice(item, 11, 19),
                      output_group |-> Slice(item, 19, 22),
                      menu_options |-> Slice(item, 22, 30),
                      rearm_delay |-> IF Len(item) >= 49 THEN Slice(item, 46, 49) ELSE "",
                      name |-> IF Len(item) >= 49 THEN From(item, 49) ELSE From(item, 30)])]

RECURSIVE UserProfileItems(_, _)
UserProfileItems(items, page) ==
    IF items = <<>> THEN page
    ELSE UserProfileItems(Tail(items), UserProfileItem(Head(items), page))

\* _parse_user_profiles_line
parse_user_profiles_line(page_data) ==
    UserProfileItems(Split(page_data, ZONE_DELIMITER),
                     Value("UserProfilesResponse", EmptyDict, EmptyDict, <<>>, FALSE, <<>>))

\* DMPResponse.ACK and DMPResponse.NAK
ACK == "+"
NAK == "-"

\* The second characters of the command codes decode takes an ACK/NAK for
ControlLetters == {"C", "O", "X", "Y", "Q"}

\* The markers decode searches a line for, in the order it tries them
MarkerPos(line) ==
    IF Find(line, "*WB") # -1 THEN Find(line, "*WB")
    ELSE IF Find(line, "!WB") # -1 THEN Find(line, "!WB")
    ELSE Find(line, "?WB")

\* The character at position 6 of a line
ack_nak_char(line) == IF Len(line) > 6 THEN Slice(line, 6, 7) ELSE ""

\* A faulty slice: the command code is read one position early
CmdOffByOne(line) == IF Len(line) > 8 THEN Slice(line, 6, 8) ELSE ""

\* The two characters at positions 7 and 8 of a line
cmd_with_prefix(line) == IF Len(line) > 8 THEN Slice(line, 7, 9) ELSE ""

\* "*P=" in line
HasUserCodes(line) == Find(line, "*P=") # -1

\* A faulty search: the profiles marker is written like the codes marker
HasUserProfilesWrongMarker(line) == Find(line, "*U=") # -1

\* "*U" in line
HasUserProfiles(line) == Find(line, "*U") # -1

\* A faulty end: the snapshot is returned even if no line filled it
FinishAlwaysStatus(status_response, has_status_data) == status_response

\* The end of decode_response, when no line made it return
Finish(status_response, has_status_data) ==
    IF has_status_data THEN status_response ELSE ResultNone

\* The loop of decode_response over the lines of the buffer
RECURSIVE DecodeLines(_, _, _)
DecodeLines(lines, status_response, has_status_data) ==
    IF lines = <<>>
    THEN Finish(status_response, has_status_data)
    ELSE LET line == Head(lines)
             is_control == /\ Len(cmd_with_prefix(line)) = 2
                           /\ Slice(cmd_with_prefix(line), 0, 1) = "!"
                           /\ Slice(cmd_with_prefix(line), 1, 2) \in ControlLetters
             marker_pos == MarkerPos(line)
             has_payload == marker_pos # -1 /\ Len(line) > marker_pos + 3
             merged == IF has_payload
                       THEN parse_status_line(From(line, marker_pos + 3), status_response)
                       ELSE status_response
         IN  IF Len(line) < 8 THEN DecodeLines(Tail(lines), status_response, has_status_data)
             ELSE IF cmd_with_prefix(line) = "!V"
             THEN DecodeLines(Tail(lines), status_response, has_status_data)
             ELSE IF is_control /\ ack_nak_char(line) = ACK THEN ResultACK
             ELSE IF is_control /\ ack_nak_char(line) = NAK THEN ResultNAK
             ELSE IF HasUserCodes(line)
             THEN parse_user_codes_line(From(line, Find(line, "*P=") + 3))
             ELSE IF HasUserProfiles(line)
             THEN parse_user_profiles_line(From(line, Find(line, "*U") + 2))
             ELSE DecodeLines(Tail(lines), merged, has_status_data \/ has_payload)

\* DMPProtocol.decode_response
decode_response(response) ==
    IF response = "" THEN ResultNone
    ELSE DecodeLines(Split(response, RESPONSE_DELIMITER),
                     StatusResponse(EmptyDict, EmptyDict), FALSE)

\* ------------------------------------------------ the buffers decode is given
\* Frames received in one buffer
MaxFrames == 2

\* A user-code record in clear: number, code, pin, four profiles, two dates, name
UserPlain1 == "00011234FFFFFFFF5678FF001002003004010125" \o "1231Bob"
UserPlain2 == "0002999999FFFFFF4321FF005006007008020226" \o "0630Ann Lee"

\* A record whose clear text is shorter than the fixed fields
UserPlainShort == "0009SHORT"

\* The items of the user-code pages the panel sends: a record ("rec", with its
\* clear text) or the marker that more pages follow ("more")
Rec(plain) == [kind |-> "rec", plain |-> plain]
More == [kind |-> "more", plain |-> "----"]

CodePages ==
    { <<Rec(UserPlain1), Rec(UserPlainShort), More>>,
      <<Rec(UserPlainShort), Rec(UserPlain2)>>,
      <<Rec(UserPlain1), Rec(UserPlain2), Rec(UserPlainShort)>> }

\* The text of an item on the wire
ItemText(it) == IF it.kind = "more" THEN it.plain ELSE encrypt_string(it.plain)

RECURSIVE JoinItems(_)
JoinItems(items) ==
    IF Len(items) = 1 THEN ItemText(items[1])
    ELSE ItemText(items[1]) \o ZONE_DELIMITER \o JoinItems(Tail(items))

\* The frame that carries a user-code page
CodesFrame(page) == "@    1*P=" \o JoinItems(page) \o MESSAGE_TERMINATOR

ControlFrames == {"@    1+!C\r", "@    1-!O01*WBA  9Djunk\r"}
AuthFrames == {"@    1!V2\r", "@    1+!V0\r"}
ZoneStatusFrames ==
    {"@    1*WBA  1DMain|L001NFront|-\r",
     "@    1*WBA  1ZHall |L002?Back\r",
     "@    1!WBA  3SShop|L003XSide\r"}
OtherStatusFrames == {"@    1*WAA  2SGarage\r"}
ProfileFrames == {"@    1*U001AAAAAAAABBBBBBBB003MMMMMMMMOwner|----\r"}
OddFrames == {"@1+!C\r", "@    1*!C\r", "@    1+!H\r"}

Frames ==
    ControlFrames \cup AuthFrames \cup ZoneStatusFrames \cup OtherStatusFrames
        \cup {CodesFrame(p) : p \in CodePages} \cup ProfileFrames \cup OddFrames

InitCodec ==
    /\ buffer = ""
    /\ received = <<>>
    /\ result = ResultNone
    /\ cpc = "recv"

\* _receive: one more frame of the panel's answer is read into the buffer.
Receive(f) ==
    /\ cpc = "recv"
    /\ Len(received) < MaxFrames
    /\ buffer' = buffer \o RESPONSE_DELIMITER \o f
    /\ received' = Append(received, f)
    /\ UNCHANGED <<result, cpc>>
    /\ CFrame

\* send_command returns decode_response(buffer).
Decode ==
    /\ cpc = "recv"
    /\ result' = decode_response(buffer)
    /\ cpc' = "done"
    /\ UNCHANGED <<buffer, received>>
    /\ CFrame

NextCodec ==
    \/ \E f \in Frames : Receive(f)
    \/ Decode

\* ------------------------------------------------- protocol.py: encoding
\* Accounts a DMPProtocol is built with
ProtocolAccounts == {"", "1", "42", "123", "0007", "12345", "123456", "1a", "abcde"}

\* The calls of encode_command: the template, the parameters given and the
\* command body they stand for ("" when a parameter of the template is missing)
EncodeCalls ==
    { [command |-> "!V0", kwargs |-> EmptyDict, body |-> "!V0"],
      [command |-> "!H", kwargs |-> EmptyDict, body |-> "!H"],
      [command |-> "!V2{key}", kwargs |-> [key |-> "KEY"], body |-> "!V2KEY"],
      [command |-> "?WB**Y{zone}", kwargs |-> [zone |-> "001"], body |-> "?WB**Y001"],
      [command |-> "!O{area}", kwargs |-> [area |-> "0102"], body |-> "!O0102"],
      [command |-> "!C{area},{bypass}{force}",
       kwargs |-> [area |-> "01", bypass |-> "N", force |-> "Y", instant |-> ""],
       body |-> "!C01,NY"],
      [command |-> "!C{area},{bypass}{force}", kwargs |-> [area |-> "01"], body |-> ""],
      [command |-> "!Q{output}{mode}", kwargs |-> [output |-> "001", mode |-> "S"],
       body |-> "!Q001S"] }

\* The call made before any other
NoCall == [command |-> "", kwargs |-> EmptyDict, body |-> ""]

\* width - len(s) spaces
RECURSIVE Spaces(_)
Spaces(n) == IF n <= 0 THEN "" ELSE " " \o Spaces(n - 1)

\* A faulty padding: s.ljust(width)
ljust(s, width) == s \o Spaces(width - Len(s))

\* s.rjust(width)
rjust(s, width) == Spaces(width - Len(s)) \o s

RECURSIVE IsDigits(_)
IsDigits(s) ==
    IF Len(s) = 0 THEN TRUE
    ELSE Find("0123456789", Head(s)) # -1 /\ IsDigits(Tail(s))

\* int(s) returns: s is decimal digits, with a sign before them or not
\* (the underscores and the spaces int() also takes are not modelled)
IntParses(s) ==
    LET digits == IF Len(s) > 0 /\ Head(s) \in {"+", "-"} THEN Tail(s) ELSE s
    IN  Len(digits) > 0 /\ IsDigits(digits)

\* DMPProtocol.__init__: what the construction does with the account
ProtocolBuilt(account) ==
    /\ Len(rjust(account, 5)) = 5
    /\ IntParses(IF Strip(rjust(account, 5)) = "" THEN "0" ELSE Strip(rjust(account, 5)))

\* command.format(**kwargs) raises KeyError: a field of the template is not given
RECURSIVE FormatFails(_, _)
FormatFails(template, kwargs) ==
    LET open == Find(template, "{")
        close == Find(template, "}")
    IN  IF open = -1 THEN FALSE
        ELSE \/ Slice(template, open + 1, close) \notin DOMAIN kwargs
             \/ FormatFails(From(template, close + 1), kwargs)

\* command.format(**kwargs)
RECURSIVE Format(_, _)
Format(template, kwargs) ==
    LET open == Find(template, "{")
        close == Find(template, "}")
    IN  IF open = -1 THEN template
        ELSE Slice(template, 0, open) \o kwargs[Slice(template, open + 1, close)]
                 \o Format(From(template, close + 1), kwargs)

\* A faulty encoder: a field that is not given is left out of the frame
EncodeSkipsMissing(account, command, kwargs) ==
    [raised |-> "",
     frame |-> IF FormatFails(command, kwargs)
               THEN MESSAGE_PREFIX \o account \o MESSAGE_TERMINATOR
               ELSE MESSAGE_PREFIX \o account \o Format(command, kwargs) \o MESSAGE_TERMINATOR]

\* DMPProtocol.encode_command
encode_command(account, command, kwargs) ==
    IF FormatFails(command, kwargs)
    THEN [raised |-> "DMPProtocolError", frame |-> ""]
    ELSE [raised |-> "",
          frame |-> MESSAGE_PREFIX \o account \o Format(command, kwargs) \o MESSAGE_TERMINATOR]

InitEncode ==
    /\ protocol = "none"
    /\ account_arg = ""
    /\ account_number = ""
    /\ ecall = NoCall
    /\ eaccount = ""
    /\ encoded = [raised |-> "", frame |-> ""]

\* DMPProtocol(account): the object is built, or the construction raises
\* ValueError and there is no object.
NewProtocol(account) ==
    /\ account_arg' = account
    /\ IF ProtocolBuilt(account)
       THEN /\ protocol' = "built"
            /\ account_number' = rjust(account, 5)
       ELSE /\ protocol' = "ValueError"
            /\ account_number' = ""
    /\ UNCHANGED <<ecall, eaccount, encoded, ewire, esend>>
    /\ EFrame

\* protocol.encode_command(command, **kwargs) on the object built last
EncodeCommand(c) ==
    /\ protocol = "built"
    /\ encoded' = encode_command(account_number, c.command, c.kwargs)
    /\ ecall' = c
    /\ eaccount' = account_arg
    /\ UNCHANGED <<protocol, account_arg, account_number, ewire, esend>>
    /\ EFrame

NextEncode ==
    \/ \E account \in ProtocolAccounts : NewProtocol(account)
    \/ \E c \in EncodeCalls : EncodeCommand(c)

\* ------------------------- connection.py, area.py, panel.py: what is written
\* DMPCommand.ARM and DMPCommand.DISARM
ARM == "!C{area},{bypass}{force}"
DISARM == "!O{area}"

\* Accounts of the connection that sends
WireAccounts == {"1", "12345"}

\* The decimal digit d as text
DigitText(d) == Slice(CipherDigits, d, d + 1)

\* A faulty number format: f"{n}"
PlainDigits(n) ==
    IF n < 10 THEN DigitText(n) ELSE DigitText(n \div 10) \o DigitText(n % 10)

\* f"{n:02d}" of a number of at most two digits
TwoDigits(n) == DigitText(n \div 10) \o DigitText(n % 10)

\* "".join(f"{int(n):02d}" for n in area_numbers)
RECURSIVE areas_concat(_)
areas_concat(area_numbers) ==
    IF area_numbers = <<>> THEN ""
    ELSE TwoDigits(Head(area_numbers)) \o areas_concat(Tail(area_numbers))

\* "Y" if flag else "N"
YesNo(flag) == IF flag THEN "Y" ELSE "N"

\* instant_flag: "Y" for True, "N" for False, "" for None
instant_flag(instant) ==
    IF instant = "True" THEN "Y" ELSE IF instant = "False" THEN "N" ELSE ""

\* The keyword arguments arm_away and arm_areas hand to send_command
ArmKwargs(area, bypass_faulted, force_arm, instant) ==
    [area |-> area, bypass |-> YesNo(bypass_faulted), force |-> YesNo(force_arm),
     instant |-> instant_flag(instant)]

\* The values of the instant option
Instants == {"True", "False", "None"}

\* encode_command has not been called
NotEncoded == [raised |-> "(not called)", frame |-> ""]

NoRequest == [areas |-> <<>>, bypass_faulted |-> FALSE, force_arm |-> FALSE, instant |-> "None"]

NoSend ==
    [op |-> "none", account |-> "", call |-> NoCall, request |-> NoRequest,
     up |-> FALSE, encoded |-> NotEncoded, raised |-> ""]

InitWire ==
    /\ ewire = ""
    /\ esend = NoSend

\* How the caller of send_command ends: Area.arm_away turns every exception
\* into DMPAreaError, arm_areas raises DMPConnectionError on "NAK"
CallerRaises(op, raised, resp) ==
    IF op = "arm_away"
    THEN IF raised # "" \/ resp = "NAK" THEN "DMPAreaError" ELSE ""
    ELSE IF op = "arm_areas"
    THEN IF raised # "" THEN raised ELSE IF resp = "NAK" THEN "DMPConnectionError" ELSE ""
    ELSE raised

\* DMPConnection.send_command(command, **kwargs) called by op for request:
\* not connected (up = FALSE) it raises before encoding; the command is
\* encoded, and a command that cannot be encoded is not written; the frame
\* is written and the answer resp of the panel is returned.
Send(op, request, c, up, resp) ==
    /\ protocol = "built"
    /\ IF ~up
       THEN /\ esend' = [op |-> op, account |-> account_arg, call |-> c, request |-> request,
                         up |-> FALSE, encoded |-> NotEncoded,
                         raised |-> CallerRaises(op, "DMPConnectionError", resp)]
            /\ ewire' = ""
       ELSE LET out == encode_command(account_number, c.command, c.kwargs)
            IN  /\ esend' = [op |-> op, account |-> account_arg, call |-> c,
                             request |-> request, up |-> TRUE, encoded |-> out,
                             raised |-> CallerRaises(op, out.raised, resp)]
                /\ ewire' = IF out.raised = "" THEN out.frame ELSE ""
    /\ UNCHANGED <<protocol, account_arg, account_number, ecall, eaccount, encoded>>
    /\ EFrame

\* connection.send_command(c.command, **c.kwargs) called directly
SendCommand(c, up, resp) == Send("send_command", NoRequest, c, up, resp)

\* Area.arm_away(bypass_faulted, force_arm, instant) of the area number
ArmAway(number, bypass_faulted, force_arm, instant, up, resp) ==
    Send("arm_away",
         [areas |-> <<number>>, bypass_faulted |-> bypass_faulted, force_arm |-> force_arm,
          instant |-> instant],
         [command |-> ARM,
          kwargs |-> ArmKwargs(TwoDigits(number), bypass_faulted, force_arm, instant),
          body |-> "(arm)"],
         up, resp)

\* DMPPanel.arm_areas(area_numbers, bypass_faulted, force_arm, instant):
\* no connection, an empty list or a number outside 0..99 raise before
\* anything is sent.
ArmAreas(area_numbers, bypass_faulted, force_arm, instant, up, resp) ==
    LET request == [areas |-> area_numbers, bypass_faulted |-> bypass_faulted,
                    force_arm |-> force_arm, instant |-> instant]
        invalid == area_numbers = <<>> \/
                   \E i \in 1..Len(area_numbers) : area_numbers[i] \notin 0..99
    IN  IF up /\ invalid
        THEN /\ protocol = "built"
             /\ ewire' = ""
             /\ esend' = [op |-> "arm_areas", account |-> account_arg, call |-> NoCall,
                          request |-> request, up |-> TRUE, encoded |-> NotEncoded,
                          raised |-> "ValueError"]
             /\ UNCHANGED <<protocol, account_arg, account_number, ecall, eaccount,
                            encoded>>
             /\ EFrame
        ELSE Send("arm_areas", request,
                  [command |-> ARM,
                   kwargs |-> ArmKwargs(IF invalid THEN "" ELSE areas_concat(area_numbers),
                                        bypass_faulted, force_arm, instant),
                   body |-> "(arm)"],
                  up, resp)

\* The area lists handed to arm_areas on the wire
WireAreaLists == {<<>>, <<1, 2>>, <<100>>}

\* The answers a command gets: none is read when nothing was sent
WireAnswers(up) == IF up THEN {"ACK", "NAK"} ELSE {"none"}

NextWire ==
    \/ \E account \in WireAccounts : NewProtocol(account)
    \/ \E c \in EncodeCalls, up \in BOOLEAN :
          \E resp \in WireAnswers(up) : SendCommand(c, up, resp)
    \/ \E number \in {1}, bypass_faulted \in BOOLEAN, force_arm \in BOOLEAN,
          instant \in Instants, up \in BOOLEAN :
          \E resp \in WireAnswers(up) :
             ArmAway(number, bypass_faulted, force_arm, instant, up, resp)
    \/ \E area_numbers \in WireAreaLists, bypass_faulted \in BOOLEAN, force_arm \in BOOLEAN,
          instant \in Instants, up \in BOOLEAN :
          \E resp \in WireAnswers(up) :
             ArmAreas(area_numbers, bypass_faulted, force_arm, instant, up, resp)

\* ------------------------------------------- panel.py, area.py: the caches
\* Status responses collected by one update_status() in the model (the code
\* sends 11 queries; the answers beyond these carry no status)
MaxPages == 2

\* Calls of the control wrappers in one run
MaxCalls == 2

\* The answers of the panel to the status queries of update_status
UpdateFrames ==
    ZoneStatusFrames \cup
    {"@    1*WBA  1A|L001O\r", "@    1*WBA  3D|L002NBack\r", "@    1+!H\r"}

\* The answers of the panel to a control command
AnswerFrames == ControlFrames \cup {"@    1!V2\r", "@    1*WBA  1DMain|L001NFront|-\r"}

\* What send_command does with an answer: it returns decode_response of
\* the bytes read
Answers == [f \in UpdateFrames \cup AnswerFrames |-> decode_response(RESPONSE_DELIMITER \o f)]

Answer(f) == Answers[f]

\* int(s) of a string of decimal digits
RECURSIVE int(_)
int(s) ==
    IF Len(s) = 0 THEN 0
    ELSE 10 * int(Slice(s, 0, Len(s) - 1)) + Find("0123456789", From(s, Len(s) - 1))

\* d.update(e)
Update(d, e) == [k \in DOMAIN d \cup DOMAIN e |-> IF k \in DOMAIN e THEN e[k] ELSE d[k]]

\* all_areas / all_zones: the dicts of the StatusResponse objects among the
\* responses, merged in order
RECURSIVE MergeResponses(_, _)
MergeResponses(responses, field) ==
    IF responses = <<>> THEN EmptyDict
    ELSE LET last == responses[Len(responses)]
             before == MergeResponses(SubSeq(responses, 1, Len(responses) - 1), field)
         IN  IF last.kind # "StatusResponse" THEN before
             ELSE Update(before, IF field = "areas" THEN last.areas ELSE last.zones)

\* A faulty Area.update_state: the name is overwritten even by an empty one
update_state_overwrites(area, state, name) == [state |-> state, name |-> name]

\* Area.update_state: the state is replaced, the name only by a non-empty one
update_state(area, state, name) ==
    [state |-> state, name |-> IF name # "" THEN name ELSE area.name]

\* Zone.update_state: the later entry overwrites the earlier one
zone_update_state(zone, state, name) == [state |-> state, name |-> name]

\* The loop over all_areas.items(): an Area is created or updated
ApplyAreas(cache, all) ==
    LET numbers == {int(k) : k \in DOMAIN all}
        entry(n) == all[CHOOSE k \in DOMAIN all : int(k) = n]
    IN  [n \in DOMAIN cache \cup numbers |->
            IF n \notin numbers THEN cache[n]
            ELSE IF n \notin DOMAIN cache
            THEN [state |-> entry(n).state, name |-> entry(n).name]
            ELSE update_state(cache[n], entry(n).state, entry(n).name)]

\* The loop over all_zones.items(): a Zone is created or updated
ApplyZones(cache, all) ==
    LET numbers == {int(k) : k \in DOMAIN all}
        entry(n) == all[CHOOSE k \in DOMAIN all : int(k) = n]
    IN  [n \in DOMAIN cache \cup numbers |->
            IF n \notin numbers THEN cache[n]
            ELSE IF n \notin DOMAIN cache
            THEN [state |-> entry(n).state, name |-> entry(n).name]
            ELSE zone_update_state(cache[n], entry(n).state, entry(n).name)]

\* What the responses, read one after the other, say last about each number
RECURSIVE LatestSaid(_, _, _)
LatestSaid(said, responses, field) ==
    IF responses = <<>> THEN said
    ELSE LET r == Head(responses)
             dict == IF field = "areas" THEN r.areas ELSE r.zones
             numbers == {int(k) : k \in DOMAIN dict}
             now_said == [n \in DOMAIN said \cup numbers |->
                             IF n \in numbers
                             THEN LET e == dict[CHOOSE k \in DOMAIN dict : int(k) = n]
                                  IN  [state |-> e.state, name |-> e.name]
                             ELSE said[n]]
         IN  LatestSaid(IF r.kind = "StatusResponse" THEN now_said ELSE said,
                        Tail(responses), field)

\* The sequences of answers one update_status() reads
RECURSIVE AnswerSeqs(_)
AnswerSeqs(n) ==
    IF n = 0 THEN {<<>>}
    ELSE AnswerSeqs(n - 1) \cup
         {Append(q, Answer(f)) : q \in {x \in AnswerSeqs(n - 1) : Len(x) = n - 1},
                                 f \in UpdateFrames}

\* What update_status() may read in all, and in one answer
StatusAnswers == AnswerSeqs(MaxPages)

OneAnswer == AnswerSeqs(1)

NoCallYet == [op |-> "none", frame |-> "", answer |-> "none"]

InitCache ==
    /\ online = TRUE
    /\ areas = EmptyDict
    /\ zones = EmptyDict
    /\ said_areas = EmptyDict
    /\ said_zones = EmptyDict
    /\ wcall = NoCallYet
    /\ wresult = "none"
    /\ wcalls = 0

\* The session is lost or is back: panel.is_connected changes.
ConnectionChange ==
    /\ online' = ~online
    /\ UNCHANGED <<areas, zones, said_areas, said_zones, wcall, wresult, wcalls>>
    /\ UFrame

\* DMPPanel.update_status on the connected panel, every send_command
\* returning: the StatusResponse objects are merged and the caches updated.
UpdateStatus(responses) ==
    /\ online
    /\ areas' = ApplyAreas(areas, MergeResponses(responses, "areas"))
    /\ zones' = ApplyZones(zones, MergeResponses(responses, "zones"))
    /\ said_areas' = LatestSaid(said_areas, responses, "areas")
    /\ said_zones' = LatestSaid(said_zones, responses, "zones")
    /\ wcall' = [op |-> "update_status", frame |-> "", answer |-> "none"]
    /\ wresult' = "returned"
    /\ UNCHANGED <<online, wcalls>>
    /\ UFrame

\* DMPPanel.update_status raising DMPConnectionError: the panel is not
\* connected, or a send_command raised before the merge.
UpdateStatusRaises ==
    /\ wcall' = [op |-> "update_status", frame |-> "", answer |-> "raised"]
    /\ wresult' = "DMPConnectionError"
    /\ UNCHANGED <<online, areas, zones, said_areas, said_zones, wcalls>>
    /\ UFrame

\* What send_command gives a wrapper: the decoded answer, or, raised = TRUE,
\* DMPConnectionError
Sent(op, f, raised) ==
    [op |-> op, frame |-> IF raised THEN "" ELSE f,
     answer |-> IF raised THEN "raised" ELSE Answer(f).kind]

\* A faulty wrapper: the answer of the panel is not looked at
WrapperIgnoresNak(w) == "returned"

\* How arm_areas and disarm_areas end once send_command is over
WrapperOutcome(w) ==
    IF w.answer = "raised" \/ w.answer = "NAK" THEN "DMPConnectionError" ELSE "returned"

\* DMPPanel.arm_areas / disarm_areas (op) for the area numbers given
ControlAreas(op, numbers, f, raised) ==
    /\ wcalls < MaxCalls
    /\ wcalls' = wcalls + 1
    /\ IF ~online
       THEN /\ wcall' = [op |-> op, frame |-> "", answer |-> "not sent"]
            /\ wresult' = "DMPConnectionError"
       ELSE IF numbers = <<>> \/ \E i \in 1..Len(numbers) : numbers[i] \notin 0..99
       THEN /\ wcall' = [op |-> op, frame |-> "", answer |-> "not sent"]
            /\ wresult' = "ValueError"
       ELSE /\ wcall' = Sent(op, f, raised)
            /\ wresult' = WrapperOutcome(Sent(op, f, raised))
    /\ UNCHANGED <<online, areas, zones, said_areas, said_zones>>
    /\ UFrame

\* Area.arm_away ("arming") / Area.disarm ("disarming") of the cached area n:
\* every exception, the rejection included, leaves as DMPAreaError.
AreaCommand(op, n, f, raised) ==
    /\ n \in DOMAIN areas
    /\ wcalls < MaxCalls
    /\ wcalls' = wcalls + 1
    /\ LET w == Sent(op, f, raised \/ ~online)
       IN  /\ wcall' = w
           /\ IF w.answer = "raised" \/ w.answer = "NAK"
              THEN /\ wresult' = "DMPAreaError"
                   /\ UNCHANGED areas
              ELSE /\ wresult' = "returned"
                   /\ areas' = [areas EXCEPT ![n].state =
                                   IF op = "arm_away" THEN "arming" ELSE "disarming"]
    /\ UNCHANGED <<online, zones, said_areas, said_zones>>
    /\ UFrame

\* The area numbers handed to arm_areas and disarm_areas
AreaLists == {<<>>, <<1>>, <<1, 2>>, <<100>>}

NextUpdate ==
    \/ ConnectionChange
    \/ \E responses \in StatusAnswers : UpdateStatus(responses)
    \/ UpdateStatusRaises

NextControl ==
    \/ ConnectionChange
    \/ \E responses \in OneAnswer : UpdateStatus(responses)
    \/ \E op \in {"arm_areas", "disarm_areas"}, numbers \in AreaLists, raised \in BOOLEAN :
          \E f \in IF raised THEN {""} ELSE AnswerFrames :
             ControlAreas(op, numbers, f, raised)
    \/ \E op \in {"arm_away", "disarm"}, n \in DOMAIN areas, raised \in BOOLEAN :
          \E f \in IF raised THEN {""} ELSE AnswerFrames :
             AreaCommand(op, n, f, raised)

\* ------------------------------------ status_parser.py: the event classifier
\* DMPEventType: the categories (event definitions) of const/events.py
DMPEventType ==
    {"Za", "Zb", "Zc", "Zd", "Ze", "Zf", "Zg", "Zh", "Zi", "Zj", "Zk", "Zl", "Zm",
     "Zp", "Zq", "Zr", "Zs", "Zt", "Zu", "Zw", "Zx", "Zy", "Zz"}

\* The type codes of the category enums of const/events.py
DMPZoneEvent == {"BL", "FI", "BU", "SV", "PN", "EM", "A1", "A2", "CO", "VA"}
DMPScheduleEvent == {"PE", "TE", "PR", "SE", "S1", "S2", "S3", "S4"}
DMPHolidayEvent == {"HA", "HB", "HC"}
DMPUserCodeEvent == {"AD", "CH", "DE", "IN"}
DMPArmingEvent == {"OP", "CL", "LA"}
DMPAccessEvent == {"DA", "AA", "IA", "IT", "AP", "IC", "IL", "WP", "IN"}
DMPRealTimeStatusEvent == {"DO", "DC", "HO", "FO", "ON", "OF", "PL", "TP", "MO"}
DMPEquipmentEvent ==
    {"RP", "RL", "AD", "RM", "AJ", "TS", "SO", "PR", "LC", "H1", "H2", "SP", "LG", "EE", "CD"}
DMPQualifierEvent == {"DT", "AC", "LC"}

\* The members of the enum named
EnumCodes(enum) ==
    CASE enum = "DMPZoneEvent" -> DMPZoneEvent
      [] enum = "DMPScheduleEvent" -> DMPScheduleEvent
      [] enum = "DMPHolidayEvent" -> DMPHolidayEvent
      [] enum = "DMPUserCodeEvent" -> DMPUserCodeEvent
      [] enum = "DMPArmingEvent" -> DMPArmingEvent
      [] enum = "DMPAccessEvent" -> DMPAccessEvent
      [] enum = "DMPRealTimeStatusEvent" -> DMPRealTimeStatusEvent
      [] enum = "DMPEquipmentEvent" -> DMPEquipmentEvent
      [] enum = "DMPQualifierEvent" -> DMPQualifierEvent
      [] OTHER -> {}

\* SYSTEM_MESSAGES: the entries the messages below use
SYSTEM_MESSAGES == [c \in {"008", "011"} |->
                       IF c = "008" THEN "AC Power Failure" ELSE "Panel Tamper"]

\* Python's None, as a field of an event
NoValue == "(None)"

\* A member of an enum, and no member
Member(enum, code) == [enum |-> enum, code |-> code]
NoMember == [enum |-> NoValue, code |-> ""]

\* _get_field: the text after "key " of the first field that starts so
RECURSIVE get_field(_, _)
get_field(fields, key) ==
    IF fields = <<>> THEN NoValue
    ELSE IF StartsWith(Head(fields), key \o " ")
    THEN Strip(From(Head(fields), Len(key) + 1))
    ELSE get_field(Tail(fields), key)

\* _split_number_name: the value is cut at its first double quote
split_number_name(value) ==
    LET q == Find(value, "\"")
    IN  IF q # -1
        THEN <<Strip(Slice(value, 0, q)), Strip(From(value, q + 1))>>
        ELSE <<Strip(value), NoValue>>

\* The number and the name of a field that may be absent
NumberName(raw_field) ==
    IF raw_field # NoValue THEN split_number_name(raw_field) ELSE <<NoValue, NoValue>>

\* The categories parse_scsvr_message classifies with the zone codes
ZoneCategories == {"Za", "Zr", "Zt", "Zw", "Zx", "Zy"}

\* The enum parse_scsvr_message classifies the type code of a category with
EnumOf(category) ==
    IF category = "Zq" THEN "DMPArmingEvent"
    ELSE IF category = "Zc" THEN "DMPRealTimeStatusEvent"
    ELSE IF category \in ZoneCategories THEN "DMPZoneEvent"
    ELSE IF category = "Zu" THEN "DMPUserCodeEvent"
    ELSE IF category = "Zl" THEN "DMPScheduleEvent"
    ELSE IF category = "Zg" THEN "DMPHolidayEvent"
    ELSE IF category = "Ze" THEN "DMPEquipmentEvent"
    ELSE "DMPQualifierEvent"

\* code_enum: the member for the type code, None when the category is
\* unknown, the type code empty or the enum has no such member (ValueError)
code_enum(category, type_code) ==
    IF category # NoValue /\ type_code # "" /\ type_code \in EnumCodes(EnumOf(category))
    THEN Member(EnumOf(category), type_code)
    ELSE NoMember

\* parse_scsvr_message(msg)
parse_scsvr_message(msg) ==
    LET category == IF msg.definition \in DMPEventType THEN msg.definition ELSE NoValue
        area == NumberName(get_field(msg.fields, "a"))
        zone == NumberName(get_field(msg.fields, "z"))
        device == NumberName(get_field(msg.fields, "v"))
        system_code == get_field(msg.fields, "s")
    IN  [raised |-> "",
         account |-> msg.account,
         category |-> category,
         type_code |-> msg.type_code,
         code_enum |-> code_enum(category, msg.type_code),
         area |-> area[1], area_name |-> area[2],
         zone |-> zone[1], zone_name |-> zone[2],
         device |-> device[1], device_name |-> device[2],
         system_code |-> system_code,
         system_text |-> IF category = "Zs" /\ system_code \notin {NoValue, ""}
                                /\ system_code \in DOMAIN SYSTEM_MESSAGES
                         THEN SYSTEM_MESSAGES[system_code] ELSE NoValue,
         fields |-> msg.fields,
         raw |-> msg.raw]

\* The push messages classified: definitions in and out of DMPEventType, type
\* codes of every enum and of none, field lists with and without names
MessageDefinitions == {"Za", "Zb", "Zc", "Ze", "Zg", "Zj", "Zl", "Zq", "Zs", "Zu", "Zx", "Qq", ""}
MessageTypeCodes == {"", "BU", "OP", "DO", "AD", "PR", "HA", "DA", "IN", "DT", "LC", "XX"}
MessageFields ==
    { <<>>,
      <<"a 01\"MAIN FLOOR\"", "z 005\"FRONT DOOR\"", "u 0001">>,
      <<"s 008", "v 12">>,
      <<"s 999", "a  2">> }

\* The raw line a message was split from
RawLine(definition, type_code, fields) ==
    LET RECURSIVE Join(_)
        Join(fs) == IF fs = <<>> THEN "" ELSE "\\" \o Head(fs) \o Join(Tail(fs))
    IN  "    1 " \o definition \o "\\t " \o type_code \o Join(fields) \o "\\"

Messages ==
    {[account |-> "    1", definition |-> d, type_code |-> t, fields |-> f,
      raw |-> RawLine(d, t, f)] :
        d \in MessageDefinitions, t \in MessageTypeCodes, f \in MessageFields}

NoMessage == [account |-> "", definition |-> "", type_code |-> "", fields |-> <<>>, raw |-> ""]

InitClassify ==
    /\ kmsg = NoMessage
    /\ kevent = [raised |-> "(not called)"]

\* What parse_scsvr_message returns for each of the messages
Classified == [msg \in Messages |-> parse_scsvr_message(msg)]

\* parse_scsvr_message(msg) is called and returns
Classify(msg) ==
    /\ kmsg' = msg
    /\ kevent' = Classified[msg]
    /\ KFrame

NextClassify == \E msg \in Messages : Classify(msg)

\* ------------------------------------ status_server.py: the event listener
\* Push lines that arrive on one inbound connection
MaxLines == 2

\* The inbound connections the listener has accepted and the callbacks that
\* are registered with it
Inbound == {"k1", "k2"}
Handlers == {"f", "g"}

InitListen ==
    /\ callbacks = <<>>
    /\ arrived = [k \in Inbound |-> 0]
    /\ lcur = [k \in Inbound |-> 0]
    /\ lidx = [k \in Inbound |-> 0]
    /\ lrun = [k \in Inbound |-> FALSE]
    /\ ldone = [k \in Inbound |-> 0]
    /\ handed = [k \in Inbound |-> <<>>]

\* register_callback(fn): fn is put after the callbacks registered before.
RegisterCallback(fn) ==
    /\ \A i \in 1..Len(callbacks) : callbacks[i] # fn
    /\ callbacks' = Append(callbacks, fn)
    /\ UNCHANGED <<arrived, lcur, lidx, lrun, ldone, handed>>
    /\ LFrame

\* The panel sends one more push line on connection k.
LineArrives(k) ==
    /\ arrived[k] < MaxLines
    /\ arrived' = [arrived EXCEPT ![k] = @ + 1]
    /\ UNCHANGED <<callbacks, lcur, lidx, lrun, ldone, handed>>
    /\ LFrame

\* The task of connection k reads its next line, the oldest not yet read.
ReadLine(k) ==
    /\ lcur[k] = 0
    /\ ldone[k] < arrived[k]
    /\ lcur' = [lcur EXCEPT ![k] = ldone[k] + 1]
    /\ lidx' = [lidx EXCEPT ![k] = 1]
    /\ UNCHANGED <<callbacks, arrived, lrun, ldone, handed>>
    /\ LFrame

\* A faulty loop over the callbacks: every second one is left out
SkipsCallback(i) == i + 2

\* The loop over the callbacks goes on with the one registered next
NextCallback(i) == i + 1

\* The task of connection k hands its line to the next callback, which runs.
CallbackBegin(k) ==
    /\ lcur[k] # 0
    /\ ~lrun[k]
    /\ lidx[k] <= Len(callbacks)
    /\ lrun' = [lrun EXCEPT ![k] = TRUE]
    /\ handed' = [handed EXCEPT ![k] = Append(@, <<lcur[k], callbacks[lidx[k]]>>)]
    /\ UNCHANGED <<callbacks, arrived, lcur, lidx, ldone>>
    /\ LFrame

\* The callback that runs for connection k returns.
CallbackEnd(k) ==
    /\ lrun[k]
    /\ lrun' = [lrun EXCEPT ![k] = FALSE]
    /\ lidx' = [lidx EXCEPT ![k] = NextCallback(@)]
    /\ UNCHANGED <<callbacks, arrived, lcur, ldone, handed>>
    /\ LFrame

\* Every callback has had the line of connection k: the task goes back to
\* reading.
LineDone(k) ==
    /\ lcur[k] # 0
    /\ ~lrun[k]
    /\ lidx[k] > Len(callbacks)
    /\ ldone' = [ldone EXCEPT ![k] = lcur[k]]
    /\ lcur' = [lcur EXCEPT ![k] = 0]
    /\ lidx' = [lidx EXCEPT ![k] = 0]
    /\ UNCHANGED <<callbacks, arrived, lrun, handed>>
    /\ LFrame

NextListen ==
    \/ \E fn \in Handlers : RegisterCallback(fn)
    \/ \E k \in Inbound : LineArrives(k)
    \/ \E k \in Inbound : ReadLine(k)
    \/ \E k \in Inbound : CallbackBegin(k)
    \/ \E k \in Inbound : CallbackEnd(k)
    \/ \E k \in Inbound : LineDone(k)

\* ------------------------------------------- panel.py: the keep-alive task
\* The loop tasks one panel can create in a run
MaxLoops == 3

LoopTasks == 1..MaxLoops

\* The coroutines calling start_keepalive, stop_keepalive, connect, disconnect
KeepaliveCallers == {"a", "b"}

\* A step of the keep-alive task model leaves the other components alone.
HFrame ==
    UNCHANGED <<pvars, svars, qvars, tvars, cvars, evars, uvars, kvars, lvars>>

InitKeepalive ==
    /\ keepalive_task = 0
    /\ loop_pc = [t \in LoopTasks |-> "none"]
    /\ loop_cancel = [t \in LoopTasks |-> FALSE]
    /\ hconn = FALSE
    /\ hpc = [c \in KeepaliveCallers |-> "idle"]
    /\ hwait = [c \in KeepaliveCallers |-> 0]
    /\ hret = "none"
    /\ hinterval = 10

\* The loop tasks created and neither ended nor cancelled
LiveLoops == {t \in LoopTasks : loop_pc[t] \in {"new", "send", "sleep"} /\ ~loop_cancel[t]}

\* asyncio.create_task(_loop()): the next loop task not yet created
NewLoop ==
    CHOOSE t \in LoopTasks : loop_pc[t] = "none" /\ \A v \in LoopTasks : v < t => loop_pc[v] # "none"

\* task and not task.done()
TaskPending(task) == task # 0 /\ loop_pc[task] # "done"

\* DMPPanel.connect, as far as the keep-alive task sees it: the panel is
\* connected when it returns.
PanelConnect(c) ==
    /\ hpc[c] = "idle"
    /\ ~hconn
    /\ hconn' = TRUE
    /\ hret' = "connect"
    /\ UNCHANGED <<keepalive_task, loop_pc, loop_cancel, hpc, hwait, hinterval>>
    /\ HFrame

\* start_keepalive from the return of `await self.stop_keepalive()` to its
\* own return: store the interval, create the loop task.
CreateLoop(c, interval) ==
    /\ \E t \in LoopTasks : loop_pc[t] = "none"
    /\ hinterval' = ClampInterval(interval)
    /\ loop_pc' = [loop_pc EXCEPT ![NewLoop] = "new"]
    /\ keepalive_task' = NewLoop
    /\ hpc' = [hpc EXCEPT ![c] = "idle"]
    /\ hwait' = [hwait EXCEPT ![c] = 0]
    /\ hret' = "start_keepalive"

\* stop_keepalive up to its suspension: take the task out of _keepalive_task
\* and cancel it when it is pending. `waiting` is the position of the caller
\* while `await task` is suspended.
CancelTask(c, waiting) ==
    /\ TaskPending(keepalive_task)
    /\ keepalive_task' = 0
    /\ loop_cancel' = [loop_cancel EXCEPT ![keepalive_task] = TRUE]
    /\ hwait' = [hwait EXCEPT ![c] = keepalive_task]
    /\ hpc' = [hpc EXCEPT ![c] = waiting]

\* DMPPanel.start_keepalive up to its first suspension, or to its end when
\* stop_keepalive has nothing to await.
start_keepalive(c, interval) ==
    /\ hpc[c] = "idle"
    /\ IF ~hconn
       THEN /\ hret' = "DMPConnectionError"
            /\ UNCHANGED <<keepalive_task, loop_pc, loop_cancel, hpc, hwait, hinterval>>
       ELSE IF TaskPending(keepalive_task)
            THEN /\ CancelTask(c, "start_wait")
                 /\ UNCHANGED <<loop_pc, hret, hinterval>>
            ELSE /\ CreateLoop(c, interval)
                 /\ UNCHANGED loop_cancel
    /\ UNCHANGED hconn
    /\ HFrame

\* start_keepalive resumes: the cancelled task has ended.
StartKeepaliveResume(c, interval) ==
    /\ hpc[c] = "start_wait"
    /\ loop_pc[hwait[c]] = "done"
    /\ CreateLoop(c, interval)
    /\ UNCHANGED <<loop_cancel, hconn>>
    /\ HFrame

\* DMPPanel.stop_keepalive up to its suspension, or to its end
stop_keepalive(c) ==
    /\ hpc[c] = "idle"
    /\ IF TaskPending(keepalive_task)
       THEN /\ CancelTask(c, "stop_wait")
            /\ UNCHANGED hret
       ELSE /\ keepalive_task' = 0
            /\ hret' = "stop_keepalive"
            /\ UNCHANGED <<loop_cancel, hpc, hwait>>
    /\ UNCHANGED <<loop_pc, hconn, hinterval>>
    /\ HFrame

\* stop_keepalive resumes from `await task` and returns.
StopKeepaliveResume(c) ==
    /\ hpc[c] = "stop_wait"
    /\ loop_pc[hwait[c]] = "done"
    /\ hpc' = [hpc EXCEPT ![c] = "idle"]
    /\ hwait' = [hwait EXCEPT ![c] = 0]
    /\ hret' = "stop_keepalive"
    /\ UNCHANGED <<keepalive_task, loop_pc, loop_cancel, hconn, hinterval>>
    /\ HFrame

\* DMPPanel.disconnect up to its first suspension: return at once when not
\* connected; else stop_keepalive, which suspends on a pending task; else on
\* to `await self._connection.disconnect()`.
panel_disconnect(c) ==
    /\ hpc[c] = "idle"
    /\ IF ~hconn
       THEN /\ hret' = "disconnect"
            /\ UNCHANGED <<keepalive_task, loop_cancel, hpc, hwait>>
       ELSE IF TaskPending(keepalive_task)
            THEN /\ CancelTask(c, "disc_wait")
                 /\ UNCHANGED hret
            ELSE /\ keepalive_task' = 0
                 /\ hpc' = [hpc EXCEPT ![c] = "closing"]
                 /\ UNCHANGED <<loop_cancel, hwait, hret>>
    /\ UNCHANGED <<loop_pc, hconn, hinterval>>
    /\ HFrame

\* disconnect resumes from stop_keepalive and goes on to close the connection.
DisconnectResume(c) ==
    /\ hpc[c] = "disc_wait"
    /\ loop_pc[hwait[c]] = "done"
    /\ hpc' = [hpc EXCEPT ![c] = "closing"]
    /\ hwait' = [hwait EXCEPT ![c] = 0]
    /\ UNCHANGED <<keepalive_task, loop_pc, loop_cancel, hconn, hret, hinterval>>
    /\ HFrame

\* `await self._connection.disconnect()` returned; _connection = None and
\* disconnect returns.
DisconnectFinish(c) ==
    /\ hpc[c] = "closing"
    /\ hconn' = FALSE
    /\ hpc' = [hpc EXCEPT ![c] = "idle"]
    /\ hret' = "disconnect"
    /\ UNCHANGED <<keepalive_task, loop_pc, loop_cancel, hwait, hinterval>>
    /\ HFrame

\* The loop task at a point where it runs: its first step, the return of
\* keep_alive() (caught when it raises), the end of its sleep. A cancelled
\* task ends; the `while` test ends the loop of a disconnected panel.
LoopStep(t) ==
    /\ loop_pc[t] \in {"new", "send", "sleep"}
    /\ loop_pc' = [loop_pc EXCEPT ![t] =
          IF loop_cancel[t] THEN "done"
          ELSE IF loop_pc[t] = "send" THEN "sleep"
          ELSE IF hconn THEN "send" ELSE "done"]
    /\ hret' = "none"
    /\ UNCHANGED <<keepalive_task, loop_cancel, hconn, hpc, hwait, hinterval>>
    /\ HFrame

NextKeepalive ==
    \/ \E c \in KeepaliveCallers : PanelConnect(c)
    \/ \E c \in KeepaliveCallers, interval \in KeepaliveIntervals : start_keepalive(c, interval)
    \/ \E c \in KeepaliveCallers, interval \in KeepaliveIntervals : StartKeepaliveResume(c, interval)
    \/ \E c \in KeepaliveCallers : stop_keepalive(c)
    \/ \E c \in KeepaliveCallers : StopKeepaliveResume(c)
    \/ \E c \in KeepaliveCallers : panel_disconnect(c)
    \/ \E c \in KeepaliveCallers : DisconnectResume(c)
    \/ \E c \in KeepaliveCallers : DisconnectFinish(c)
    \/ \E t \in LoopTasks : LoopStep(t)

\* ------------------------------------------------------------ specifications
Init == InitPanel /\ InitSend /\ InitQueue /\ InitPace /\ InitCodec /\ InitEncode
        /\ InitCache /\ InitWire /\ InitClassify
        /\ InitListen /\ InitKeepalive

SpecPanel == Init /\ [][NextPanel]_vars

SpecKeepalive == Init /\ [][NextKeepalive]_vars

SpecSend == Init /\ [][NextSend]_vars

SpecQueue == Init /\ [][NextQueue]_vars

FairSpecQueue == SpecQueue /\ WF_vars(QueueProgress)

SpecQueueSeq == Init /\ [][NextQueueSeq]_vars

SpecPace == Init /\ [][NextPace]_vars

SpecCodec == Init /\ [][NextCodec]_vars

SpecEncode == Init /\ [][NextEncode]_vars

SpecUpdate == Init /\ [][NextUpdate]_vars

SpecControl == Init /\ [][NextControl]_vars

SpecWire == Init /\ [][NextWire]_vars

SpecClassify == Init /\ [][NextClassify]_vars

SpecListen == Init /\ [][NextListen]_vars

\* ------------------------------------------------------------------ claims

\* The panels other than q that hold an open connection for identity key
OpenHolders(q, key) ==
    {p \in Panels \ {q} : panel_is_connected(p) /\ connKey[p] = key}

\* C1: while one panel holds an open connection for an identity, no connect()
\* of another panel for that identity gets past the guard: it creates no
\* DMPConnection and opens no socket.
C1_GuardRejectsWhileOpen ==
    [][\A q \in Panels :
          (ppc[q] = "idle" /\ ppc'[q] = "opening")
              => OpenHolders(q, connKey'[q]) = {}]_vars

\* C2: once the disconnect() of a panel whose connect() succeeded has
\* returned, the identity is no longer registered (unless another panel has
\* a connection for it), whatever the state of the stream was.
C2_DisconnectUnregisters ==
    \A p \in Panels :
        (/\ presult[p] = "disconnected"
         /\ session[p] # NoKey
         /\ \A q \in Panels \ {p} : ~(hasConn[q] /\ connKey[q] = session[p]))
            => session[p] \notin ACTIVE_CONNECTIONS

\* C3: of two connect() calls for one identity at most one passes the guard
\* and opens a session: never have both returned normally with both panels
\* connected to that identity.
C3_AtMostOneConnected ==
    \A p, q \in Panels :
        (/\ p # q
         /\ session[p] # NoKey
         /\ session[q] # NoKey
         /\ panel_is_connected(p)
         /\ panel_is_connected(q)) => session[p] # session[q]

\* The sends in flight: command written, read of the response not finished
InFlight == {s \in Senders : spc[s] \in {"settle", "read"}}

\* C4: at most one send on the connection is in flight at any time.
C4_OneSendInFlight == Cardinality(InFlight) <= 1

\* The commands enqueue() accepted whose completion handle is still pending
Pending == {c \in Cmds : fut[c] = "pending"}

\* This step passes a command to send_command
Passes == Len(sent') > Len(sent)

\* C5: commands reach send_command in the order their items were put, and a
\* command is passed only when the send of every command put before it has
\* completed or failed.
C5_FifoOneAtATime ==
    [][Passes =>
          \A a \in Cmds :
              (call[a] = "accepted" /\ a < sent'[Len(sent')]) => outcome[a] # "none"]_vars

\* This step ends worker task w
WorkerEnds(w) == wpc[w] # "done" /\ wpc'[w] = "done"

\* This step is the return of a stop() that found the queue running
StopReturns ==
    \/ \E t \in Tasks : tpc[t] \in {"woken", "await_worker"} /\ tpc'[t] = "idle"
    \/ running /\ ~running' /\ tpc' = tpc

\* C6: stop() drains the queue before the worker ends: when a worker task
\* ends and when stop() returns, no command is left in the queue and no
\* accepted command has a pending handle.
C6_StopDrains ==
    [][((\E w \in Workers : WorkerEnds(w)) \/ StopReturns)
          => (queue' = <<>> /\ Pending' = {})]_vars

\* C7: a stop() called on a running queue eventually returns, given that
\* every task that can run does and every send_command completes or raises.
C7_StopReturns ==
    \A t \in Tasks : (tpc[t] \in {"join", "woken", "await_worker"}) ~> (tpc[t] = "idle")

\* C8: every command enqueue() accepted eventually has its completion
\* handle resolved or rejected, under the same fairness.
C8_EveryHandleResolved ==
    \A c \in Cmds : (fut[c] = "pending") ~> (fut[c] # "pending")

\* C9: when a worker task ends by cancellation while it holds a command
\* taken from the queue, the handle of that command has been resolved or
\* rejected.
C9_CancelResolvesHandle ==
    [][\A w \in Workers :
          (wcancel[w] /\ wcur[w] # 0 /\ WorkerEnds(w)) => fut'[wcur[w]] # "pending"]_vars

\* This step ends the send of the command worker w holds, whose caller
\* had cancelled its wait
CancelledSendEnds(w) ==
    /\ wpc[w] = "send"
    /\ wcur[w] # 0
    /\ fut[wcur[w]] = "cancelled"
    /\ outcome[wcur[w]] = "none"
    /\ outcome'[wcur[w]] # "none"

\* C11: cancelling a caller's wait leaves the worker and the command it
\* sends alone, and when the send of a cancelled caller's command is over
\* the worker goes on: it does not end while commands are queued behind it.
C11_CallerCancelKeepsWorker ==
    [][/\ (\E c \in Cmds : fut[c] = "pending" /\ fut'[c] = "cancelled")
            => UNCHANGED <<wpc, wcur, wcancel, queue, outcome, sent>>
       /\ \A w \in Workers :
            CancelledSendEnds(w) => (queue' # <<>> => wpc'[w] # "done")]_vars

\* The worker tasks created and not ended
LiveWorkers == {w \in Workers : wpc[w] \in {"new", "get", "rate", "send"}}

\* This step creates a worker task
CreatesWorker == \E w \in Workers : wpc[w] = "none" /\ wpc'[w] # "none"

\* C12: with sequential start()/stop() calls, start() on a running queue
\* creates no worker and leaves _worker_task alone; stop() on a stopped
\* queue does not suspend and cancels nothing; the queue starts running
\* only by a start() that creates the worker and stops running only by a
\* stop(); and while it is running exactly one worker task exists, the one
\* _worker_task names.
C12_StartStopIdempotent ==
    /\ [](running => LiveWorkers = {worker_task})
    /\ [][/\ running => (~CreatesWorker /\ worker_task' = worker_task)
          /\ (~running /\ tpc[SeqCaller] = "idle")
                => (/\ tpc'[SeqCaller] = "idle"
                    /\ wcancel' = wcancel
                    /\ (~running' => worker_task' = worker_task))
          /\ (~running /\ running') => (CreatesWorker /\ LiveWorkers' = {worker_task'})
          /\ (running /\ ~running')
                => (tpc'[SeqCaller] # "idle" \/ worker_task' = 0)]_vars

\* The queue processed a command, was stopped and started again: the second
\* worker is the only one.
C12_Witness ==
    /\ running
    /\ wpc[1] = "done"
    /\ LiveWorkers = {2}
    /\ worker_task = 2
    /\ \E c \in Cmds : outcome[c] # "none"

\* This step is made by the task of caller s
StepOf(s) == spc'[s] # spc[s] \/ sresult'[s] # sresult[s]

\* C13: a send_command called on a session that is not Ready raises
\* DMPConnectionError, writes nothing and leaves the session's state and
\* pacing alone; only on a Ready session does a call get past the test.
C13_NotReadyRaises ==
    [][\A s \in Callers :
          (spc[s] = "idle" /\ StepOf(s)) =>
              IF s_is_connected
              THEN spc'[s] \in {"rate", "settle"}
              ELSE /\ sresult'[s] = "DMPConnectionError"
                   /\ spc'[s] = "idle"
                   /\ UNCHANGED <<wire, sconnected, swriter, scmd, nextCmd, rbuf>>]_vars

\* A call on a session whose handshake failed has raised, nothing written.
C13_Witness ==
    /\ sresult["c1"] = "DMPConnectionError"
    /\ ~sconnected
    /\ swriter = "open"
    /\ wire = <<>>

\* C14: the authentication exchange is entered only once per connect(),
\* from the opening of the stream, and it ends either with the handshake
\* done (connect() goes on and registers the identity) or with connect()
\* raising DMPAuthenticationError, the session not connected, nothing
\* registered and no second attempt.
C14_AuthFailureSurfaces ==
    [][\A p \in Panels :
          /\ (ppc[p] # "auth" /\ ppc'[p] = "auth") => ppc[p] = "opening"
          /\ (ppc[p] = "auth" /\ ppc'[p] # "auth") =>
                \/ /\ connKey[p] \in ACTIVE_CONNECTIONS'
                   /\ connected'[p] = connected[p]
                   /\ presult'[p] # "DMPAuthenticationError"
                \/ /\ presult'[p] = "DMPAuthenticationError"
                   /\ ppc'[p] = "idle"
                   /\ ~is_connected(p)'
                   /\ ACTIVE_CONNECTIONS' = ACTIVE_CONNECTIONS]_vars

\* A connect() whose handshake raised has returned: the stream was opened,
\* the session is not connected.
C14_Witness ==
    \E p \in Panels :
        /\ ppc[p] = "idle"
        /\ presult[p] = "DMPAuthenticationError"
        /\ writer[p] = "open"
        /\ ~is_connected(p)

\* C15: when the opening of the stream ends without a stream, connect()
\* raises DMPConnectionError for an OS error and DMPTimeoutError, another
\* type, for a timeout; the session is not connected, holds no stream, and
\* the authentication exchange is not entered.
C15_OpenFailureErrors ==
    [][\A p \in Panels :
          (ppc[p] = "opening" /\ ppc'[p] # "opening" /\ writer'[p] # "open") =>
              /\ ppc'[p] = "idle"
              /\ pcause'[p] \in OpenErrors
              /\ pcause'[p] = "OSError" => presult'[p] = "DMPConnectionError"
              /\ pcause'[p] = "TimeoutError" => presult'[p] = "DMPTimeoutError"
              /\ ~is_connected(p)'
              /\ writer'[p] = "none"
              /\ ACTIVE_CONNECTIONS' = ACTIVE_CONNECTIONS]_vars

\* One connect() failed by an OS error and one by the timeout.
C15_Witness ==
    \E p, q \in Panels :
        /\ ppc[p] = "idle" /\ pcause[p] = "OSError"
        /\ presult[p] = "DMPConnectionError"
        /\ ppc[q] = "idle" /\ pcause[q] = "TimeoutError"
        /\ presult[q] = "DMPTimeoutError"
        /\ ~is_connected(p) /\ ~is_connected(q)

\* C16: when disconnect() of the session has returned the session is
\* Disconnected: _connected is false and no stream is held.
C16_DisconnectResets == sdisc => (~sconnected /\ swriter = "none")

\* C17: a command is written no earlier than the minimum interval after
\* the command written before it on the connection.
C17_WritesSpaced ==
    [][\A w \in PaceSenders :
          (tp[w] # "settle" /\ tp'[w] = "settle") => now - c_last >= RATE_LIMIT_TICKS]_vars

\* C18: when every command goes through the queue, the pacing wait of the
\* queue and the pacing wait of the connection are never both applied to
\* one command.
C18_NoDoubleWait ==
    tp[Direct] = "none" => \A w \in Pacers : ~(qw[w] > 0 /\ cw[w] > 0)

\* C19: an enqueue() called while the queue is not running raises
\* RuntimeError, puts nothing into the queue and creates no future.
C19_EnqueueNotRunning ==
    [][\A c \in Cmds :
          (call[c] = "none" /\ call'[c] # "none" /\ ~running) =>
              /\ call'[c] = "RuntimeError"
              /\ fut'[c] = "none"
              /\ UNCHANGED <<queue, unfinished, fut>>]_vars

\* One enqueue() was refused on the stopped queue, a later one accepted.
C19_Witness ==
    \E c, d \in Cmds :
        /\ call[c] = "RuntimeError" /\ fut[c] = "none"
        /\ call[d] = "accepted" /\ c < d

\* The keep-alive loop is inside keep_alive()
KeepaliveInFlight == spc[KeepAlive] \in {"rate", "settle", "read"}

FrameAck(f) == Slice(f, 6, 7)
FrameCode(f) == Slice(f, 7, 9)

\* Frame f gives an ACK/NAK determination: a control command with + or -
Determines(f) ==
    /\ Len(f) >= 8
    /\ FrameCode(f) \in {"!C", "!O", "!X", "!Y", "!Q"}
    /\ FrameAck(f) \in {"+", "-"}

\* Frame f is read past its account and is not an ACK/NAK or auth answer
ReadFurther(f) == Len(f) >= 8 /\ ~Determines(f) /\ FrameCode(f) # "!V"

\* Frame f carries a user-codes or a user-profiles page
CarriesPage(f) == ReadFurther(f) /\ \E m \in {"*P=", "*U"} : Find(f, m) # -1

\* Frame f makes decode return
Returns(f) == Determines(f) \/ CarriesPage(f)

\* The first frame of the buffer that makes decode return is frame i
FirstReturning(i) ==
    /\ i \in 1..Len(received)
    /\ Returns(received[i])
    /\ \A j \in 1..(i - 1) : ~Returns(received[j])

\* Frame f carries the marker of a zone status answer and a payload after it
CarriesZoneStatus(f) ==
    /\ ReadFurther(f)
    /\ \E m \in {"*WB", "!WB", "?WB"} : Find(f, m) # -1 /\ Len(f) > Find(f, m) + 3

\* Frame f carries one of the status response markers and a payload after it
CarriesStatus(f) ==
    /\ ReadFurther(f)
    /\ \E m \in {"*WA", "*WB", "*WQ", "*WS"} : Find(f, m) # -1 /\ Len(f) > Find(f, m) + 3

\* The records of the status payload of frame f, as the panel wrote them
StatusItems(f) ==
    LET at == {Find(f, m) : m \in {"*WA", "*WB", "*WQ", "*WS", "!WB", "?WB"}} \ {-1}
        first == CHOOSE i \in at : \A j \in at : i <= j
    IN  Split(From(f, first + 3), ZONE_DELIMITER)

RecordOf(item) ==
    [type |-> Slice(item, 0, 1),
     key |-> IF Slice(item, 0, 1) = "A" THEN Strip(Slice(item, 1, 4)) ELSE Slice(item, 1, 4),
     state_char |-> Slice(item, 4, 5),
     name |-> Strip(From(item, 5))]

\* <<i, n>>: item n of frame i of the buffer is an area or a zone record
StatusRecords ==
    {p \in (1..Len(received)) \X (1..8) :
        /\ CarriesStatus(received[p[1]]) \/ CarriesZoneStatus(received[p[1]])
        /\ p[2] <= Len(StatusItems(received[p[1]]))
        /\ Len(StatusItems(received[p[1]])[p[2]]) >= 5
        /\ RecordOf(StatusItems(received[p[1]])[p[2]]).type \in {"A", "L"}
        /\ RecordOf(StatusItems(received[p[1]])[p[2]]).key # ""}

RecordAt(p) == RecordOf(StatusItems(received[p[1]])[p[2]])

\* No later record of the buffer has the type and number of record p
LatestRecord(p) ==
    \A q \in StatusRecords :
        (RecordAt(q).type = RecordAt(p).type /\ RecordAt(q).key = RecordAt(p).key) =>
            (q[1] < p[1] \/ (q[1] = p[1] /\ q[2] <= p[2]))

\* The state the snapshot holds for a record with state character ch
SnapshotState(type, ch) ==
    IF type = "A" THEN (IF ch \in {"A", "D", "S"} THEN ch ELSE "unknown")
    ELSE (IF ch \in {"N", "O", "S", "X", "L", "M"} THEN ch ELSE "unknown")

\* The snapshot holds record p
InSnapshot(p, snapshot) ==
    LET r == RecordAt(p)
        dict == IF r.type = "A" THEN snapshot.areas ELSE snapshot.zones
    IN  /\ r.key \in DOMAIN dict
        /\ dict[r.key] = [number |-> r.key, state |-> SnapshotState(r.type, r.state_char),
                          name |-> r.name]

\* The numbers of the records of type t in the buffer
KeysOfType(t) == {RecordAt(p).key : p \in {q \in StatusRecords : RecordAt(q).type = t}}

\* The numbers, with their type, that frame i gives a record for
KeysOfFrame(i) ==
    {<<RecordAt(p).type, RecordAt(p).key>> : p \in {q \in StatusRecords : q[1] = i}}

\* The frames of the buffer in the opposite order
RECURSIVE ReversedBuffer(_)
ReversedBuffer(frames) ==
    IF frames = <<>> THEN ""
    ELSE ReversedBuffer(Tail(frames)) \o RESPONSE_DELIMITER \o Head(frames)

\* ---- the control wrappers and update_status

\* The panel answered the wrapper's command with a control acknowledgement
AnsweredControl(w) == w.frame # "" /\ Determines(w.frame)

\* C21: when the panel answers an arm or disarm command with a NAK, the
\* session and the codec hand "NAK" back as a value, arm_areas and
\* disarm_areas raise DMPConnectionError, and Area.arm_away and Area.disarm
\* raise DMPAreaError and leave the cached areas as they were; when it
\* answers with an ACK, all four return normally.
C21_NakRaisesAckReturns ==
    [][(wcalls' = wcalls + 1 /\ AnsweredControl(wcall')) =>
          LET nak == FrameAck(wcall'.frame) = NAK
          IN  /\ wcall'.answer = IF nak THEN "NAK" ELSE "ACK"
              /\ wcall'.op \in {"arm_areas", "disarm_areas"} =>
                    wresult' = IF nak THEN "DMPConnectionError" ELSE "returned"
              /\ wcall'.op \in {"arm_away", "disarm"} =>
                    /\ wresult' = IF nak THEN "DMPAreaError" ELSE "returned"
                    /\ nak => areas' = areas]_vars

\* arm_areas has been rejected by the panel while areas are cached
C21_Witness ==
    /\ wcall.op = "arm_areas"
    /\ wcall.answer = "NAK"
    /\ wresult = "DMPConnectionError"
    /\ areas # EmptyDict

\* C22: every area and zone number that a status response has named is in
\* its cache, with the state and the name of the latest response that
\* named it.
C22_CachesKeepLatest ==
    /\ \A n \in DOMAIN said_areas : n \in DOMAIN areas /\ areas[n] = said_areas[n]
    /\ \A n \in DOMAIN said_zones : n \in DOMAIN zones /\ zones[n] = said_zones[n]

C24_ControlAckNak ==
    cpc = "done" =>
        \A i \in 1..Len(received) :
            (FirstReturning(i) /\ Determines(received[i])) =>
                result = IF FrameAck(received[i]) = "+" THEN ResultACK ELSE ResultNAK

\* A NAK with text after its command code, behind a status frame and before
\* nothing else, was decoded as NAK.
C24_Witness ==
    /\ cpc = "done"
    /\ Len(received) = 2
    /\ CarriesZoneStatus(received[1])
    /\ Determines(received[2]) /\ Len(received[2]) > 10
    /\ result = ResultNAK

\* C25: decode returns None for the empty buffer, for a buffer of
\* authentication/disconnect frames only, and for every buffer in which no
\* frame gives an ACK/NAK, a status payload or a record page.
C25_NoDataIsNone ==
    cpc = "done" =>
        /\ buffer = "" => result = ResultNone
        /\ (\A i \in 1..Len(received) : received[i] \in AuthFrames) => result = ResultNone
        /\ (\A i \in 1..Len(received) :
               /\ ~Returns(received[i])
               /\ ~CarriesStatus(received[i])
               /\ ~CarriesZoneStatus(received[i])) => result = ResultNone

\* A buffer of two authentication/disconnect frames was decoded.
C25_Witness ==
    /\ cpc = "done"
    /\ Len(received) = 2
    /\ received[1] \in AuthFrames /\ received[2] \in AuthFrames
    /\ received[1] # received[2]
    /\ result = ResultNone

\* C26: in a snapshot decode returns every area state is A, D, S or
\* "unknown" and every zone state is N, O, S, X, L, M or "unknown"; a record
\* of a parsed status payload whose state character is none of these is in
\* the snapshot with state "unknown" and its name, trimmed.
C26_StatesNormalised ==
    (cpc = "done" /\ result.kind = "StatusResponse") =>
        /\ \A k \in DOMAIN result.areas :
              result.areas[k].state \in {"A", "D", "S", "unknown"}
        /\ \A k \in DOMAIN result.zones :
              result.zones[k].state \in {"N", "O", "S", "X", "L", "M", "unknown"}
        /\ \A p \in StatusRecords :
              (/\ CarriesZoneStatus(received[p[1]])
               /\ LatestRecord(p)
               /\ SnapshotState(RecordAt(p).type, RecordAt(p).state_char) = "unknown") =>
                  LET r == RecordAt(p)
                      kept == IF r.type = "A" THEN result.areas ELSE result.zones
                  IN  /\ r.key \in DOMAIN kept
                      /\ kept[r.key].state = "unknown"
                      /\ kept[r.key].name = r.name

\* A snapshot holds an area and a zone whose state characters are not defined.
C26_Witness ==
    /\ cpc = "done"
    /\ result.kind = "StatusResponse"
    /\ \E k \in DOMAIN result.areas :
          result.areas[k].state = "unknown" /\ result.areas[k].name = "Hall"
    /\ \E k \in DOMAIN result.zones :
          result.zones[k].state = "unknown" /\ result.zones[k].name = "Back"

\* The page whose frame made decode return a UserCodesResponse
ReturnedCodePage ==
    CHOOSE page \in CodePages :
        \E i \in 1..Len(received) : FirstReturning(i) /\ received[i] = CodesFrame(page)

\* The records of a page that are long enough to hold the fixed fields
RECURSIVE LongRecords(_)
LongRecords(page) ==
    IF page = <<>> THEN <<>>
    ELSE IF page[1].kind = "rec" /\ Len(page[1].plain) >= 44
    THEN <<page[1]>> \o LongRecords(Tail(page))
    ELSE LongRecords(Tail(page))

\* C27: in a user-code page a record whose clear text has fewer than 44
\* characters gives no UserCode, and has_more and last_number are what the
\* page gives without that record: has_more is set exactly when the page
\* holds the four-dash marker, which gives no UserCode either, and
\* last_number is the number of the last record of at least 44 characters.
C27_ShortRecordsDropped ==
    (cpc = "done" /\ result.kind = "UserCodesResponse") =>
        LET page == ReturnedCodePage
            long == LongRecords(page)
        IN  /\ Len(result.records) = Len(long)
            /\ \A n \in 1..Len(long) :
                  /\ result.records[n].number = Slice(long[n].plain, 0, 4)
                  /\ result.records[n].name = From(long[n].plain, 44)
            /\ result.has_more = (\E n \in 1..Len(page) : page[n].kind = "more")
            /\ result.last_number =
                  IF long = <<>> THEN <<>> ELSE <<Slice(long[Len(long)].plain, 0, 4)>>

\* A page that ends with a short record was decoded: two users, the last
\* number is that of the record before the short one.
C27_Witness ==
    /\ cpc = "done"
    /\ result.kind = "UserCodesResponse"
    /\ ReturnedCodePage[Len(ReturnedCodePage)] = Rec(UserPlainShort)
    /\ Len(result.records) = 2
    /\ result.last_number = <<"0002">>
    /\ ~result.has_more

\* C28: the first frame of the buffer that carries a user-codes or a
\* user-profiles marker, when no ACK/NAK frame is before it, makes decode
\* return its page: a page of that kind, with no status records, equal to
\* the page decode gives for that frame alone, whatever frames are before
\* and after it.
C28_PageReturnedAlone ==
    cpc = "done" =>
        \A i \in 1..Len(received) :
            (FirstReturning(i) /\ CarriesPage(received[i])) =>
                /\ result.kind = IF Find(received[i], "*P=") # -1
                                 THEN "UserCodesResponse" ELSE "UserProfilesResponse"
                /\ result.areas = EmptyDict /\ result.zones = EmptyDict
                /\ result.records # <<>>
                /\ result = decode_response(RESPONSE_DELIMITER \o received[i])

\* A profiles page behind a status frame was decoded.
C28_Witness ==
    /\ cpc = "done"
    /\ Len(received) = 2
    /\ CarriesZoneStatus(received[1])
    /\ received[2] \in ProfileFrames
    /\ result.kind = "UserProfilesResponse"
    /\ result.last_number = <<"001">>

\* C29: when no frame of the buffer makes decode return, a frame that
\* carries one of the status markers *WA, *WB, *WQ, *WS is decoded as a
\* status payload: decode returns a snapshot, and the snapshot holds the
\* area and zone records after the marker.
C29_KnownMarkersDecoded ==
    cpc = "done" =>
        \A i \in 1..Len(received) :
            (/\ CarriesStatus(received[i])
             /\ \A j \in 1..Len(received) : ~Returns(received[j])) =>
                /\ result.kind = "StatusResponse"
                /\ \A p \in StatusRecords :
                      (p[1] = i /\ LatestRecord(p)) => InSnapshot(p, result)

\* The account field of a frame: the account behind the spaces that fill 5 places
AccountField(a) ==
    CASE Len(a) = 1 -> "    " \o a
      [] Len(a) = 2 -> "   " \o a
      [] Len(a) = 3 -> "  " \o a
      [] Len(a) = 4 -> " " \o a
      [] OTHER -> a

\* Every character of a is a decimal digit
DecimalDigits(a) ==
    \A i \in 1..Len(a) :
        Slice(a, i - 1, i) \in {"0", "1", "2", "3", "4", "5", "6", "7", "8", "9"}

\* A command encoded with all its parameters, for an account of 1 to 5
\* characters, is "@", the account field, the command body and a carriage
\* return
FrameAsLaidOut ==
    (ecall # NoCall /\ ecall.body # "" /\ Len(eaccount) \in 1..5) =>
        /\ encoded.raised = ""
        /\ encoded.frame = "@" \o AccountField(eaccount) \o ecall.body \o "\r"
        /\ Len(encoded.frame) = 7 + Len(ecall.body)

MissingValue(c) == c \in EncodeCalls /\ c.body = ""

\* C31: a command whose template has a placeholder with no value given
\* fails in the encoder with DMPProtocolError and gives no bytes, and
\* send_command, given such a command, writes nothing to the socket.
C31_MissingValueWritesNothing ==
    (esend.op = "send_command" /\ esend.up /\ MissingValue(esend.call)) =>
        /\ esend.encoded = [raised |-> "DMPProtocolError", frame |-> ""]
        /\ esend.raised = "DMPProtocolError"
        /\ ewire = ""

\* send_command has been given the arm command without its flags
C31_Witness ==
    /\ esend.op = "send_command"
    /\ esend.up
    /\ esend.call.command = ARM
    /\ DOMAIN esend.call.kwargs = {"area"}
    /\ esend.raised = "DMPProtocolError"

\* The arm request r was written to the socket
ArmWritten(r) ==
    /\ esend.op \in {"arm_away", "arm_areas"}
    /\ esend.request = r
    /\ esend.up
    /\ esend.encoded.raised = ""

\* C32: arming area 1 with bypass, without force and without the instant
\* option on account "1" writes exactly @    1!C01,YN and the terminator.
C32_ArmAreaOneBytes ==
    (/\ ArmWritten([areas |-> <<1>>, bypass_faulted |-> TRUE, force_arm |-> FALSE,
                    instant |-> "None"])
     /\ esend.op = "arm_away"
     /\ esend.account = "1") => ewire = "@    1!C01,YN\r"

\* Area 1 has been armed that way on account "1"
C32_Witness ==
    /\ esend.op = "arm_away"
    /\ esend.account = "1"
    /\ esend.request = [areas |-> <<1>>, bypass_faulted |-> TRUE, force_arm |-> FALSE,
                        instant |-> "None"]
    /\ esend.up
    /\ ewire # ""

\* The flags of the arm command on the wire: what stands between the comma
\* and the terminator
WireFlags == Slice(ewire, Find(ewire, ",") + 1, Len(ewire) - 1)

\* C33: an arm request with the instant option True or False writes a third
\* flag, Y or N, after the bypass and the force flag; with the option None it
\* writes the two flags only.
C33_InstantFlagWritten ==
    \A instant \in Instants, bypass_faulted \in BOOLEAN, force_arm \in BOOLEAN :
        (/\ esend.request.instant = instant
         /\ esend.request.bypass_faulted = bypass_faulted
         /\ esend.request.force_arm = force_arm
         /\ ArmWritten(esend.request)) =>
            WireFlags = (IF bypass_faulted THEN "Y" ELSE "N") \o
                        (IF force_arm THEN "Y" ELSE "N") \o
                        (IF instant = "True" THEN "Y" ELSE IF instant = "False" THEN "N" ELSE "")

\* ---- the event classifier

\* The vocabulary the type code of a category is to be classified in: zone
\* codes, arming codes, real-time codes, user-code, schedule, holiday and
\* equipment codes, and the access-event codes for door access
VocabularyOf(definition) ==
    CASE definition \in ZoneCategories -> "DMPZoneEvent"
      [] definition = "Zq" -> "DMPArmingEvent"
      [] definition = "Zc" -> "DMPRealTimeStatusEvent"
      [] definition = "Zu" -> "DMPUserCodeEvent"
      [] definition = "Zl" -> "DMPScheduleEvent"
      [] definition = "Zg" -> "DMPHolidayEvent"
      [] definition = "Ze" -> "DMPEquipmentEvent"
      [] definition = "Zj" -> "DMPAccessEvent"
      [] OTHER -> NoValue

\* parse_scsvr_message has been called
ClassifierCalled == kevent.raised # "(not called)"

\* C34: the classifier never raises; it returns the account, the type code,
\* the field list and the raw line of the message unchanged, and the
\* classified code is empty when the category is unknown or the type code is
\* not in the vocabulary of its category.
C34_SoftFailureKeepsRaw ==
    ClassifierCalled =>
        /\ kevent.raised = ""
        /\ kevent.account = kmsg.account
        /\ kevent.type_code = kmsg.type_code
        /\ kevent.fields = kmsg.fields
        /\ kevent.raw = kmsg.raw
        /\ (\/ kmsg.definition \notin DMPEventType
            \/ /\ VocabularyOf(kmsg.definition) # NoValue
               /\ kmsg.type_code \notin EnumCodes(VocabularyOf(kmsg.definition)))
           => kevent.code_enum = NoMember

\* C35: the type code of an event is classified in the vocabulary of its
\* category and in no other: the member of that vocabulary when it has the
\* code, nothing otherwise.
C35_CategorySelectsVocabulary ==
    (ClassifierCalled /\ VocabularyOf(kmsg.definition) # NoValue) =>
        kevent.code_enum =
            IF kmsg.type_code \in EnumCodes(VocabularyOf(kmsg.definition))
            THEN Member(VocabularyOf(kmsg.definition), kmsg.type_code)
            ELSE NoMember

\* ---- the event listener

\* The position of callback fn in the registration order
RegisteredAt(fn) == CHOOSE i \in 1..Len(callbacks) : callbacks[i] = fn

\* The calls made for connection k are in the order of arrival of the lines
\* and, for one line, in the order of registration of the callbacks
HandedInOrder(k) ==
    \A i, j \in 1..Len(handed[k]) :
        i < j => \/ handed[k][i][1] < handed[k][j][1]
                 \/ /\ handed[k][i][1] = handed[k][j][1]
                    /\ RegisteredAt(handed[k][i][2]) < RegisteredAt(handed[k][j][2])

\* C36: within one inbound connection the push lines are handed out in the
\* order they arrived, each line to every registered callback in the order
\* of registration before the next line is taken, and a callback that has not
\* returned holds up its own connection only.
C36_LinesInOrderPerConnection ==
    /\ [](\A k \in Inbound : HandedInOrder(k))
    /\ [][\A k \in Inbound :
            /\ ldone'[k] # ldone[k] =>
                  /\ ldone'[k] = ldone[k] + 1
                  /\ \A c \in 1..Len(callbacks) :
                        \E i \in 1..Len(handed[k]) : handed[k][i] = <<ldone'[k], callbacks[c]>>
            /\ (lcur'[k] # lcur[k] /\ lcur'[k] # 0) => (lcur[k] = 0 /\ lcur'[k] = ldone[k] + 1)]_vars
    /\ [](\A k, j \in Inbound :
            (k # j /\ lrun[k] /\ lcur[j] # 0 /\ ~lrun[j] /\ lidx[j] <= Len(callbacks))
                => ENABLED CallbackBegin(j))

\* Both callbacks have had both lines of one connection while a callback of
\* the other connection has not returned
C36_Witness ==
    /\ Len(callbacks) = 2
    /\ lrun["k1"]
    /\ ldone["k2"] = 2
    /\ Len(handed["k2"]) = 4

\* ---- connect() that raises

\* What DMPPanel.connect raises once it has started to open the stream
ConnectFailures ==
    {"DMPConnectionError", "DMPTimeoutError", "DMPAuthenticationError", "StatusError"}

\* This step is connect() of panel p raising after its guard has passed
ConnectRaises(p) ==
    /\ ppc[p] \in {"opening", "auth", "init_status", "disc_close"}
    /\ ppc'[p] = "idle"
    /\ presult'[p] \in ConnectFailures

\* C37: when connect() of a panel raises, for a failed open, a timeout, a
\* failed authentication or a failed initial status update, the identity it
\* was connecting is not in the registry afterwards, unless another panel
\* is using that identity.
C37_FailedConnectUnregisters ==
    [][\A p \in Panels :
          (ConnectRaises(p) /\ \A q \in Panels \ {p} : connKey[q] # connKey[p])
              => connKey[p] \notin ACTIVE_CONNECTIONS']_vars

\* C38: a connection that is Disconnected, with no call in progress on it,
\* holds no open stream; so after a connect() that failed in the handshake
\* the stream it had opened is closed.
C38_DisconnectedHoldsNoStream ==
    \A p \in Panels :
        (hasConn[p] /\ ppc[p] = "idle" /\ ~connected[p]) => writer[p] # "open"

\* C39: at most one worker task of a CommandQueue exists and consumes items
\* at any time, for every interleaving of start() and stop(), a start()
\* called while a stop() is suspended included.
C39_AtMostOneWorker ==
    Cardinality({w \in LiveWorkers : ~wcancel[w]}) <= 1

\* C40: at most one keep-alive loop task of a panel is running at any time,
\* for every interleaving of start_keepalive(), stop_keepalive() and
\* disconnect(), and when disconnect() has returned no keep-alive loop is
\* running.
C40_AtMostOneKeepaliveLoop ==
    /\ Cardinality(LiveLoops) <= 1
    /\ hret = "disconnect" => LiveLoops = {}

\* This step is send_command raising for the command worker w holds
SendRaises(w) ==
    /\ wpc[w] = "send"
    /\ wcur[w] # 0
    /\ outcome[wcur[w]] = "none"
    /\ outcome'[wcur[w]] \in SendErrors

\* C10: when send_command raises for a command, exactly the handle of that
\* command is rejected, with that exception, and the worker goes on: it
\* does not end while commands are queued behind the failed one.
C10_FailureRejectsOnlyThat ==
    [][\A w \in Workers :
          SendRaises(w) =>
              /\ fut'[wcur[w]] = outcome'[wcur[w]]
              /\ \A d \in Cmds \ {wcur[w]} : fut'[d] = fut[d]
              /\ (queue' # <<>> => wpc'[w] # "done")]_vars

====
